---------------------------- MODULE Spec2Model ----------------------------
(***************************************************************************)
(* A model of the endpoint scraper: the coverage analyzer, the Java        *)
(* endpoint extractor and the Scala endpoint extractor.  Strings are TLA+  *)
(* strings, read character by character with SubSeq; the regular           *)
(* expressions of the source are transcribed as syntax trees and run by a  *)
(* backtracking matcher with the priorities of the JavaScript one.         *)
(***************************************************************************)
EXTENDS Integers, Sequences, FiniteSets, TLC

VARIABLES pm, cov, java, scala, scan, finder, fn

vars == <<pm, cov, java, scala, scan, finder, fn>>

(***************************************************************************)
(* Strings                                                                 *)
(***************************************************************************)

\* The value of an optional field that is absent or undefined.
undefined == "<undefined>"

charAt(s, i) == SubSeq(s, i, i)

\* String.prototype.startsWith
startsWith(s, p) == Len(p) <= Len(s) /\ SubSeq(s, 1, Len(p)) = p

\* String.prototype.endsWith
endsWith(s, p) == Len(p) <= Len(s) /\ SubSeq(s, Len(s) - Len(p) + 1, Len(s)) = p

Min(a, b) == IF a <= b THEN a ELSE b

Least(S) == CHOOSE x \in S : \A y \in S : x <= y

Greatest(S) == CHOOSE x \in S : \A y \in S : y <= x

\* String.prototype.indexOf, 1-based; 0 when p does not occur in s.
indexOf(s, p) ==
  LET hits == {i \in 1..(Len(s) + 1) :
                 i + Len(p) - 1 <= Len(s) /\ SubSeq(s, i, i + Len(p) - 1) = p}
  IN  IF hits = {} THEN 0 ELSE Least(hits)

\* String.prototype.includes
includes(s, p) == indexOf(s, p) # 0

LowerLetters == <<"a","b","c","d","e","f","g","h","i","j","k","l","m",
                  "n","o","p","q","r","s","t","u","v","w","x","y","z">>
UpperLetters == <<"A","B","C","D","E","F","G","H","I","J","K","L","M",
                  "N","O","P","Q","R","S","T","U","V","W","X","Y","Z">>
Digits == {"0","1","2","3","4","5","6","7","8","9"}

Range(f) == {f[x] : x \in DOMAIN f}

upperChar(c) ==
  IF c \in Range(LowerLetters)
  THEN UpperLetters[CHOOSE k \in 1..26 : LowerLetters[k] = c]
  ELSE c

lowerChar(c) ==
  IF c \in Range(UpperLetters)
  THEN LowerLetters[CHOOSE k \in 1..26 : UpperLetters[k] = c]
  ELSE c

\* String.prototype.toUpperCase, one half of the text after the other.
RECURSIVE toUpperCase(_)
toUpperCase(s) ==
  IF Len(s) <= 1 THEN upperChar(s)
  ELSE toUpperCase(SubSeq(s, 1, Len(s) \div 2))
         \o toUpperCase(SubSeq(s, Len(s) \div 2 + 1, Len(s)))

\* The text a case-insensitive (/i) expression is matched against.
RECURSIVE toLowerCase(_)
toLowerCase(s) ==
  IF Len(s) <= 1 THEN lowerChar(s)
  ELSE toLowerCase(SubSeq(s, 1, Len(s) \div 2))
         \o toLowerCase(SubSeq(s, Len(s) \div 2 + 1, Len(s)))

WhiteSpace == {" ", "\t", "\r", "\n"}

\* String.prototype.trim
trim(s) ==
  LET inked == {i \in 1..Len(s) : charAt(s, i) \notin WhiteSpace}
  IN  IF inked = {} THEN "" ELSE SubSeq(s, Least(inked), Greatest(inked))

\* String.prototype.split with a one-character separator: the texts
\* between the places of the separator.
split(s, sep) ==
  LET places == {i \in 1..Len(s) : charAt(s, i) = sep}
      n == Cardinality(places)
      place(k) == CHOOSE p \in places : Cardinality({q \in places : q < p}) = k - 1
  IN  [k \in 1..(n + 1) |->
         SubSeq(s, IF k = 1 THEN 1 ELSE place(k - 1) + 1,
                   IF k = n + 1 THEN Len(s) ELSE place(k) - 1)]

\* Array.prototype.join
RECURSIVE join(_, _)
join(xs, sep) ==
  IF Len(xs) = 0 THEN ""
  ELSE IF Len(xs) = 1 THEN xs[1]
  ELSE xs[1] \o sep \o join(Tail(xs), sep)

(***************************************************************************)
(* Regular expressions.  Match gives the ends of the matches of r that     *)
(* start at position i, in the order a backtracking matcher tries them     *)
(* (alternatives left to right, repetitions greedy); the first end that    *)
(* lets the rest of the expression match is the one JavaScript reports.    *)
(***************************************************************************)

Lit(str) == [t |-> "lit", s |-> str]
In(chars) == [t |-> "cls", set |-> chars, neg |-> FALSE]
NotIn(chars) == [t |-> "cls", set |-> chars, neg |-> TRUE]
Cat(rs) == [t |-> "cat", rs |-> rs]
Alt(rs) == [t |-> "alt", rs |-> rs]
Star(r) == [t |-> "rep", r |-> r, min |-> 0, many |-> TRUE]
Plus(r) == [t |-> "rep", r |-> r, min |-> 1, many |-> TRUE]
Opt(r) == [t |-> "rep", r |-> r, min |-> 0, many |-> FALSE]
Grp(k, r) == [t |-> "grp", k |-> k, r |-> r]
Bol == [t |-> "bol"]
Eol == [t |-> "eol"]

WordChars == Range(LowerLetters) \cup Range(UpperLetters) \cup Digits \cup {"_"}
wordChar == In(WordChars)            \* \w
space == In(WhiteSpace)              \* \s
nonSpace == NotIn(WhiteSpace)        \* \S and [^\s]
anyChar == NotIn({"\n", "\r"})       \* .

NoCaps == <<<<>>, <<>>, <<>>>>

RECURSIVE Match(_, _, _, _), MatchCat(_, _, _, _, _), MatchAlt(_, _, _, _, _),
          MatchRep(_, _, _, _, _), Then(_, _, _, _, _, _), Again(_, _, _, _, _, _, _)

\* The ends of a repeated character class, longest first: the run of
\* characters of the class from i on, given up one character at a time.
MatchClassRun(r, s, i, caps) ==
  LET others == {j \in i..Len(s) : (charAt(s, j) \in r.r.set) = r.r.neg}
      stop == IF others = {} THEN Len(s) + 1 ELSE Least(others)
      last == IF r.many THEN stop ELSE Min(stop, i + 1)
  IN  [n \in 1..(last - (i + r.min) + 1) |-> [pos |-> last - n + 1, caps |-> caps]]

Match(r, s, i, caps) ==
  CASE r.t = "lit" ->
         IF i + Len(r.s) - 1 <= Len(s) /\ SubSeq(s, i, i + Len(r.s) - 1) = r.s
         THEN <<[pos |-> i + Len(r.s), caps |-> caps]>> ELSE <<>>
    [] r.t = "cls" ->
         IF i <= Len(s) /\ ((charAt(s, i) \in r.set) # r.neg)
         THEN <<[pos |-> i + 1, caps |-> caps]>> ELSE <<>>
    [] r.t = "cat" -> MatchCat(r.rs, 1, s, i, caps)
    [] r.t = "alt" -> MatchAlt(r.rs, 1, s, i, caps)
    [] r.t = "rep" ->
         IF r.r.t = "cls" THEN MatchClassRun(r, s, i, caps) ELSE MatchRep(r, 0, s, i, caps)
    [] r.t = "grp" ->
         LET inner == Match(r.r, s, i, caps)
         IN  [n \in 1..Len(inner) |->
                [pos |-> inner[n].pos,
                 caps |-> [inner[n].caps EXCEPT ![r.k] = <<i, inner[n].pos>>]]]
    [] r.t = "bol" -> IF i = 1 THEN <<[pos |-> i, caps |-> caps]>> ELSE <<>>
    [] r.t = "eol" -> IF i = Len(s) + 1 THEN <<[pos |-> i, caps |-> caps]>> ELSE <<>>

\* rs[j], then the rest of the concatenation from each of its ends.
MatchCat(rs, j, s, i, caps) ==
  IF j > Len(rs) THEN <<[pos |-> i, caps |-> caps]>>
  ELSE LET found == Match(rs[j], s, i, caps)
       IN  Then(found, 1, Len(found), rs, j, s)

\* The rest of the concatenation from found[lo] to found[hi], in this order.
Then(found, lo, hi, rs, j, s) ==
  IF lo > hi THEN <<>>
  ELSE IF lo = hi THEN MatchCat(rs, j + 1, s, found[lo].pos, found[lo].caps)
  ELSE Then(found, lo, (lo + hi) \div 2, rs, j, s)
         \o Then(found, (lo + hi) \div 2 + 1, hi, rs, j, s)

MatchAlt(rs, j, s, i, caps) ==
  IF j > Len(rs) THEN <<>>
  ELSE Match(rs[j], s, i, caps) \o MatchAlt(rs, j + 1, s, i, caps)

\* Greedy: one more round first (a round that consumes nothing is not
\* taken), then stopping here when min rounds were made.
MatchRep(r, done, s, i, caps) ==
  LET found == IF r.many \/ done = 0 THEN Match(r.r, s, i, caps) ELSE <<>>
      stop == IF done >= r.min THEN <<[pos |-> i, caps |-> caps]>> ELSE <<>>
  IN  Again(found, 1, Len(found), r, done, s, i) \o stop

Again(found, lo, hi, r, done, s, i) ==
  IF lo > hi THEN <<>>
  ELSE IF lo = hi
       THEN (IF found[lo].pos > i
             THEN MatchRep(r, done + 1, s, found[lo].pos, found[lo].caps) ELSE <<>>)
  ELSE Again(found, lo, (lo + hi) \div 2, r, done, s, i)
         \o Again(found, (lo + hi) \div 2 + 1, hi, r, done, s, i)

NoMatch == [found |-> FALSE, start |-> 0, end |-> 0, caps |-> NoCaps]

\* The leftmost match of r in s that starts at one of the positions lo..hi.
RECURSIVE searchIn(_, _, _, _)
searchIn(r, s, lo, hi) ==
  IF lo > hi THEN NoMatch
  ELSE IF lo = hi
       THEN LET found == Match(r, s, lo, NoCaps)
            IN  IF Len(found) > 0
                THEN [found |-> TRUE, start |-> lo, end |-> found[1].pos,
                      caps |-> found[1].caps]
                ELSE NoMatch
  ELSE LET left == searchIn(r, s, lo, (lo + hi) \div 2)
       IN  IF left.found THEN left ELSE searchIn(r, s, (lo + hi) \div 2 + 1, hi)

searchFrom(r, s, i) == searchIn(r, s, i, Len(s) + 1)

\* String.prototype.match without the g flag.
match(s, r) == searchFrom(r, s, 1)

\* RegExp.prototype.test
test(r, s) == match(s, r).found

\* m[k] of a match m of s; undefined when group k took no part in it.
group(s, m, k) ==
  IF m.found /\ Len(m.caps[k]) > 0
  THEN SubSeq(s, m.caps[k][1], m.caps[k][2] - 1) ELSE undefined

\* String.prototype.match with the g flag: the texts of all the matches.
RECURSIVE matchAllFrom(_, _, _)
matchAllFrom(s, r, i) ==
  LET m == searchFrom(r, s, i)
  IN  IF ~m.found THEN <<>>
      ELSE <<SubSeq(s, m.start, m.end - 1)>>
             \o matchAllFrom(s, r, IF m.end = m.start THEN m.end + 1 ELSE m.end)

matchAll(s, r) == matchAllFrom(s, r, 1)

(***************************************************************************)
(* CoverageAnalyzer                                                        *)
(***************************************************************************)

\* path.replace(/\/+/g, '/'): of every run of '/' only the first is kept.
\* The characters lo..hi of the result, one half after the other.
RECURSIVE collapseIn(_, _, _)
collapseIn(path, lo, hi) ==
  IF lo > hi THEN ""
  ELSE IF lo = hi
       THEN (IF charAt(path, lo) = "/" /\ lo > 1 /\ charAt(path, lo - 1) = "/"
             THEN "" ELSE charAt(path, lo))
  ELSE collapseIn(path, lo, (lo + hi) \div 2) \o collapseIn(path, (lo + hi) \div 2 + 1, hi)

\* replace(/\/+/, '/') without the g flag: only the first run of '/' is
\* collapsed.
collapseFirstRun(path) ==
  LET first == indexOf(path, "/")
      after == Least({k \in first..(Len(path) + 1) : k > Len(path) \/ charAt(path, k) # "/"})
  IN  IF first = 0 THEN path
      ELSE SubSeq(path, 1, first) \o SubSeq(path, after, Len(path))

collapseSlashes(path) == collapseIn(path, 1, Len(path))

\* No replace(/\/$/, '') at all.
keepTrailingSlash(path) == path

\* .replace(/\/$/, ''): a '/' at the very end is removed, once.
stripTrailingSlash(path) ==
  IF endsWith(path, "/") THEN SubSeq(path, 1, Len(path) - 1) ELSE path

normalizePath(path) ==
  LET stripped == stripTrailingSlash(collapseSlashes(path))
  IN  IF stripped = "" THEN "/" ELSE stripped

\* /\{[^}]+\}/
reBraceParam == Cat(<<Lit("{"), Plus(NotIn({"}"})), Lit("}")>>)

isParameterSegment(segment) ==
  \/ startsWith(segment, "{") /\ endsWith(segment, "}")
  \/ startsWith(segment, ":")
  \/ includes(segment, "*")
  \/ test(reBraceParam, segment)

\* pathsMatchWithParameters with only the specification's side allowed to
\* hold a parameter.
RECURSIVE segmentsMatchSpecSideOnly(_, _, _)
segmentsMatchSpecSideOnly(endpointSegments, specSegments, i) ==
  IF i > Len(endpointSegments) THEN TRUE
  ELSE IF isParameterSegment(specSegments[i])
       THEN segmentsMatchSpecSideOnly(endpointSegments, specSegments, i + 1)
  ELSE IF endpointSegments[i] # specSegments[i] THEN FALSE
  ELSE segmentsMatchSpecSideOnly(endpointSegments, specSegments, i + 1)

\* The loop of pathsMatchWithParameters from index i on (1-based).
RECURSIVE segmentsMatchFrom(_, _, _)
segmentsMatchFrom(endpointSegments, specSegments, i) ==
  IF i > Len(endpointSegments) THEN TRUE
  ELSE IF isParameterSegment(endpointSegments[i]) \/ isParameterSegment(specSegments[i])
       THEN segmentsMatchFrom(endpointSegments, specSegments, i + 1)
  ELSE IF endpointSegments[i] # specSegments[i] THEN FALSE
  ELSE segmentsMatchFrom(endpointSegments, specSegments, i + 1)

pathsMatchWithParameters(endpointPath, specPath) ==
  LET endpointSegments == split(endpointPath, "/")
      specSegments == split(specPath, "/")
  IN  IF Len(endpointSegments) # Len(specSegments) THEN FALSE
      ELSE segmentsMatchFrom(endpointSegments, specSegments, 1)

pathsMatch(endpointPath, specPath) ==
  LET normalizedEndpointPath == normalizePath(endpointPath)
      normalizedSpecPath == normalizePath(specPath)
  IN  IF normalizedEndpointPath = normalizedSpecPath THEN TRUE
      ELSE pathsMatchWithParameters(normalizedEndpointPath, normalizedSpecPath)

\* methodsMatch comparing nothing.
methodsMatchAny(endpointMethod, specMethod) == TRUE

methodsMatch(endpointMethod, specMethod) ==
  toUpperCase(endpointMethod) = toUpperCase(specMethod)

\* Array.prototype.find: the index of the first spec endpoint that matches,
\* 0 when none does.
RECURSIVE findMatchingFrom(_, _, _)
findMatchingFrom(endpoint, specEndpoints, k) ==
  IF k > Len(specEndpoints) THEN 0
  ELSE IF methodsMatch(endpoint.method, specEndpoints[k].method)
          /\ pathsMatch(endpoint.path, specEndpoints[k].path) THEN k
  ELSE findMatchingFrom(endpoint, specEndpoints, k + 1)

\* findMatchingEndpoint giving the last match in place of the first.
findLastMatchingEndpoint(endpoint, specEndpoints) ==
  LET hits == {k \in 1..Len(specEndpoints) :
                 /\ methodsMatch(endpoint.method, specEndpoints[k].method)
                 /\ pathsMatch(endpoint.path, specEndpoints[k].path)}
  IN  IF hits = {} THEN 0 ELSE CHOOSE k \in hits : \A j \in hits : j <= k

findMatchingEndpoint(endpoint, specEndpoints) ==
  findMatchingFrom(endpoint, specEndpoints, 1)

NoSpecEndpoint == [method |-> undefined, path |-> undefined, operationId |-> undefined]

\* The for loop of findEndpointCoverage from specification n on.
RECURSIVE findCoverageFrom(_, _, _)
findCoverageFrom(endpoint, apiSpecs, n) ==
  IF n > Len(apiSpecs)
  THEN [status |-> "not-covered", specFile |-> undefined, matchedEndpoint |-> NoSpecEndpoint]
  ELSE LET k == findMatchingEndpoint(endpoint, apiSpecs[n].endpoints)
       IN  IF k # 0
           THEN [status |-> "covered", specFile |-> apiSpecs[n].filePath,
                 matchedEndpoint |-> apiSpecs[n].endpoints[k]]
           ELSE findCoverageFrom(endpoint, apiSpecs, n + 1)

findEndpointCoverage(endpoint, apiSpecs) == findCoverageFrom(endpoint, apiSpecs, 1)

\* A result object built field by field that leaves the class name out.
withCoverageWithoutClass(endpoint, coverage) ==
  [method |-> endpoint.method, path |-> endpoint.path, filePath |-> endpoint.filePath,
   lineNumber |-> endpoint.lineNumber, className |-> undefined,
   methodName |-> endpoint.methodName, apiSpecCoverage |-> coverage]

\* { ...endpoint, apiSpecCoverage: coverage }
withCoverage(endpoint, coverage) ==
  [method |-> endpoint.method, path |-> endpoint.path, filePath |-> endpoint.filePath,
   lineNumber |-> endpoint.lineNumber, className |-> endpoint.className,
   methodName |-> endpoint.methodName, apiSpecCoverage |-> coverage]

\* analyzeEndpointCoverage deciding 'no-spec-found' by the number of spec
\* endpoints in place of the number of specifications.
analyzeNoSpecEndpoints(endpoints, apiSpecs) ==
  IF \A n \in 1..Len(apiSpecs) : Len(apiSpecs[n].endpoints) = 0
  THEN [n \in 1..Len(endpoints) |->
          withCoverage(endpoints[n],
            [status |-> "no-spec-found", specFile |-> undefined,
             matchedEndpoint |-> NoSpecEndpoint])]
  ELSE [n \in 1..Len(endpoints) |->
          withCoverage(endpoints[n], findEndpointCoverage(endpoints[n], apiSpecs))]

analyzeEndpointCoverage(endpoints, apiSpecs) ==
  IF Len(apiSpecs) = 0
  THEN [n \in 1..Len(endpoints) |->
          withCoverage(endpoints[n],
            [status |-> "no-spec-found", specFile |-> undefined,
             matchedEndpoint |-> NoSpecEndpoint])]
  ELSE [n \in 1..Len(endpoints) |->
          withCoverage(endpoints[n], findEndpointCoverage(endpoints[n], apiSpecs))]

(***************************************************************************)
(* JavaEndpointExtractor                                                   *)
(***************************************************************************)

Verbs == <<"GET", "POST", "PUT", "PATCH", "DELETE">>

\* /^(@\w+\s+)*public\s+class\s+\w+/
reJavaClass ==
  Cat(<<Bol, Star(Grp(1, Cat(<<Lit("@"), Plus(wordChar), Plus(space)>>))),
        Lit("public"), Plus(space), Lit("class"), Plus(space), Plus(wordChar)>>)

\* /@RestController|@Controller/
reController == Alt(<<Lit("@RestController"), Lit("@Controller")>>)

\* /class\s+(\w+)/
reClassName == Cat(<<Lit("class"), Plus(space), Grp(1, Plus(wordChar))>>)

\* /@RequestMapping/
reRequestMapping == Lit("@RequestMapping")

\* /@(GetMapping|PostMapping|PutMapping|PatchMapping|DeleteMapping|RequestMapping)/
reMapping ==
  Cat(<<Lit("@"),
        Grp(1, Alt(<<Lit("GetMapping"), Lit("PostMapping"), Lit("PutMapping"),
                     Lit("PatchMapping"), Lit("DeleteMapping"), Lit("RequestMapping")>>))>>)

\* /method\s*=\s*RequestMethod\.(\w+)/
reRequestMethod ==
  Cat(<<Lit("method"), Star(space), Lit("="), Star(space), Lit("RequestMethod."),
        Grp(1, Plus(wordChar))>>)

quoted == Cat(<<Lit("\""), Grp(1, Star(NotIn({"\""}))), Lit("\"")>>)   \* "([^"]*)"

\* /value\s*=\s*"([^"]*)"/
reValue == Cat(<<Lit("value"), Star(space), Lit("="), Star(space), quoted>>)

\* /@\w+Mapping\("([^"]*)"\)/
reDirectPath == Cat(<<Lit("@"), Plus(wordChar), Lit("Mapping("), quoted, Lit(")")>>)

\* /path\s*=\s*"([^"]*)"/
rePathAttr == Cat(<<Lit("path"), Star(space), Lit("="), Star(space), quoted>>)

\* /value\s*=\s*\{\s*"([^"]*)"/
reValueArray ==
  Cat(<<Lit("value"), Star(space), Lit("="), Star(space), Lit("{"), Star(space),
        Lit("\""), Grp(1, Star(NotIn({"\""})))  , Lit("\"")>>)

\* /public\s+\w+\s+(\w+)\s*\(/
reJavaMethod ==
  Cat(<<Lit("public"), Plus(space), Plus(wordChar), Plus(space), Grp(1, Plus(wordChar)),
        Star(space), Lit("(")>>)

javaIsClassDeclaration(line) == test(reJavaClass, line) \/ test(reController, line)

javaExtractClassName(line) == group(line, match(line, reClassName), 1)

javaIsRequestMapping(line) == test(reRequestMapping, line)

javaIsEndpointAnnotation(line) == test(reMapping, line)

null == "<null>"

\* extractHttpMethod is the same text in the two extractors.
extractHttpMethod(line) ==
  IF test(Lit("@GetMapping"), line) THEN "GET"
  ELSE IF test(Lit("@PostMapping"), line) THEN "POST"
  ELSE IF test(Lit("@PutMapping"), line) THEN "PUT"
  ELSE IF test(Lit("@PatchMapping"), line) THEN "PATCH"
  ELSE IF test(Lit("@DeleteMapping"), line) THEN "DELETE"
  ELSE IF test(reRequestMapping, line)
       THEN LET methodMatch == match(line, reRequestMethod)
                method == toUpperCase(group(line, methodMatch, 1))
            IN  IF methodMatch.found /\ method \in Range(Verbs) THEN method ELSE "GET"
  ELSE null

\* The first of a || b || c that matched.
firstFound(ms) ==
  IF \E k \in 1..Len(ms) : ms[k].found
  THEN ms[CHOOSE k \in 1..Len(ms) : ms[k].found /\ \A j \in 1..(k - 1) : ~ms[j].found]
  ELSE NoMatch

javaExtractPath(line) ==
  LET valueMatch == firstFound(<<match(line, reValue), match(line, reDirectPath),
                                 match(line, rePathAttr)>>)
      arrayMatch == match(line, reValueArray)
  IN  IF valueMatch.found THEN group(line, valueMatch, 1)
      ELSE IF arrayMatch.found THEN group(line, arrayMatch, 1)
      ELSE ""

\* The loop of extractMethodName: lines[i] with i 0-based, so line i + 1 here.
RECURSIVE javaMethodNameFrom(_, _, _)
javaMethodNameFrom(lines, i, end) ==
  IF i >= end THEN undefined
  ELSE LET methodMatch == match(trim(lines[i + 1]), reJavaMethod)
       IN  IF methodMatch.found THEN group(trim(lines[i + 1]), methodMatch, 1)
           ELSE javaMethodNameFrom(lines, i + 1, end)

javaExtractMethodName(lines, currentIndex) ==
  javaMethodNameFrom(lines, currentIndex + 1, Min(currentIndex + 5, Len(lines)))

\* combinePaths that leaves the '/' at the end of the base path.
combinePathsKeepingSlash(basePath, endpointPath) ==
  IF basePath = "" /\ endpointPath = "" THEN "/"
  ELSE (IF basePath = "" \/ startsWith(basePath, "/") THEN basePath ELSE "/" \o basePath)
         \o (IF endpointPath = "" \/ startsWith(endpointPath, "/") THEN endpointPath
             ELSE "/" \o endpointPath)

\* combinePaths that puts the two paths together as they are written.
combinePathsAsWritten(basePath, endpointPath) == basePath \o endpointPath

\* combinePaths is the same text in the two extractors.
combinePaths(basePath, endpointPath) ==
  IF basePath = "" /\ endpointPath = "" THEN "/"
  ELSE IF basePath = ""
       THEN (IF startsWith(endpointPath, "/") THEN endpointPath ELSE "/" \o endpointPath)
  ELSE IF endpointPath = ""
       THEN (IF startsWith(basePath, "/") THEN basePath ELSE "/" \o basePath)
  ELSE LET cleanBase == IF startsWith(basePath, "/") THEN basePath ELSE "/" \o basePath
           cleanEndpoint == IF startsWith(endpointPath, "/") THEN endpointPath
                            ELSE "/" \o endpointPath
       IN  IF endsWith(cleanBase, "/")
           THEN SubSeq(cleanBase, 1, Len(cleanBase) - 1) \o cleanEndpoint
           ELSE cleanBase \o cleanEndpoint

\* The line the loop is at: lines[i].trim(), i 0-based.
javaLine == trim(java.lines[java.i + 1])

JavaInLoop == java.pc = "loop" /\ java.i < Len(java.lines)

\* extract up to the loop: the content is split into lines.
JavaStart ==
  /\ java.pc = "start"
  /\ java' = [java EXCEPT !.pc = "loop", !.lines = split(java.content, "\n")]
  /\ UNCHANGED <<pm, cov, scala, scan, finder, fn>>

JavaClassDeclaration ==
  /\ JavaInLoop
  /\ javaIsClassDeclaration(javaLine)
  /\ java' = [java EXCEPT !.currentClassName = javaExtractClassName(javaLine),
                          !.i = java.i + 1]
  /\ UNCHANGED <<pm, cov, scala, scan, finder, fn>>

JavaRequestMapping ==
  /\ JavaInLoop
  /\ ~javaIsClassDeclaration(javaLine)
  /\ javaIsRequestMapping(javaLine)
  /\ java' = [java EXCEPT !.baseMapping = javaExtractPath(javaLine), !.i = java.i + 1]
  /\ UNCHANGED <<pm, cov, scala, scan, finder, fn>>

JavaEndpointAnnotation ==
  /\ JavaInLoop
  /\ ~javaIsClassDeclaration(javaLine)
  /\ ~javaIsRequestMapping(javaLine)
  /\ javaIsEndpointAnnotation(javaLine)
  /\ LET method == extractHttpMethod(javaLine)
         path == javaExtractPath(javaLine)
         methodName == javaExtractMethodName(java.lines, java.i)
     IN  java' = [java EXCEPT
           !.endpoints =
              IF method # null
              THEN Append(java.endpoints,
                     [method |-> method, path |-> combinePaths(java.baseMapping, path),
                      filePath |-> java.filePath, lineNumber |-> java.i + 1,
                      className |-> java.currentClassName, methodName |-> methodName])
              ELSE java.endpoints,
           !.i = java.i + 1]
  /\ UNCHANGED <<pm, cov, scala, scan, finder, fn>>

JavaOtherLine ==
  /\ JavaInLoop
  /\ ~javaIsClassDeclaration(javaLine)
  /\ ~javaIsRequestMapping(javaLine)
  /\ ~javaIsEndpointAnnotation(javaLine)
  /\ java' = [java EXCEPT !.i = java.i + 1]
  /\ UNCHANGED <<pm, cov, scala, scan, finder, fn>>

JavaReturn ==
  /\ java.pc = "loop" /\ java.i = Len(java.lines)
  /\ java' = [java EXCEPT !.pc = "done"]
  /\ UNCHANGED <<pm, cov, scala, scan, finder, fn>>

JavaNext ==
  \/ JavaStart \/ JavaClassDeclaration \/ JavaRequestMapping
  \/ JavaEndpointAnnotation \/ JavaOtherLine \/ JavaReturn

(***************************************************************************)
(* ScalaEndpointExtractor                                                  *)
(***************************************************************************)

\* /Test\.scala$/, /Spec\.scala$/, /IT\.scala$/, /IntegrationTest\.scala$/,
\* /TestDsl\.scala$/, /\/test\//, /\/tests\//
testPatterns ==
  << Cat(<<Lit("Test.scala"), Eol>>), Cat(<<Lit("Spec.scala"), Eol>>),
     Cat(<<Lit("IT.scala"), Eol>>), Cat(<<Lit("IntegrationTest.scala"), Eol>>),
     Cat(<<Lit("TestDsl.scala"), Eol>>), Lit("/test/"), Lit("/tests/") >>

\* isTestFile looking at the file name only, not at the directories.
isTestFileByNameOnly(filePath) ==
  \E k \in 1..5 : test(testPatterns[k], filePath)

isTestFile(filePath) == \E k \in 1..Len(testPatterns) : test(testPatterns[k], filePath)

typeKeyword == Alt(<<Lit("class"), Lit("object"), Lit("trait")>>)
verbWord == Alt(<<Lit("GET"), Lit("POST"), Lit("PUT"), Lit("PATCH"), Lit("DELETE")>>)
verbWordLower == Alt(<<Lit("get"), Lit("post"), Lit("put"), Lit("patch"), Lit("delete")>>)

\* /^(class|object|trait)\s+\w+/
reScalaType == Cat(<<Bol, Grp(1, typeKeyword), Plus(space), Plus(wordChar)>>)

\* /(class|object|trait)\s+(\w+)/
reScalaTypeName == Cat(<<Grp(1, typeKeyword), Plus(space), Grp(2, Plus(wordChar))>>)

\* /^\s*(GET|POST|PUT|PATCH|DELETE)\s+\/\S+/
rePlayVerbAndPath ==
  Cat(<<Bol, Star(space), Grp(1, verbWord), Plus(space), Lit("/"), Plus(nonSpace)>>)

\* /\s+\S+\.\S+/
rePlayDotted == Cat(<<Plus(space), Plus(nonSpace), Lit("."), Plus(nonSpace)>>)

\* /^\s*(GET|POST|PUT|PATCH|DELETE)\s+([^\s]+)\s+(.+)/
rePlayRoute ==
  Cat(<<Bol, Star(space), Grp(1, verbWord), Plus(space), Grp(2, Plus(nonSpace)),
        Plus(space), Grp(3, Plus(anyChar))>>)

\* /path(Prefix)?\s*\(\s*"[^"]*"/ and /path(?:Prefix)?\s*\(\s*"([^"]*)"/: group
\* 2 here is group 1 of the second.
reAkkaPath ==
  Cat(<<Lit("path"), Opt(Grp(1, Lit("Prefix"))), Star(space), Lit("("), Star(space),
        Lit("\""), Grp(2, Star(NotIn({"\""}))), Lit("\"")>>)

\* /(get|post|put|patch|delete)/i, against the lowered line
reAkkaVerb == Grp(1, verbWordLower)

\* /(get|post|put|patch|delete)\s*\(\s*path\s*\(/i, against the lowered line
reAkkaVerbOfPath ==
  Cat(<<Grp(1, verbWordLower), Star(space), Lit("("), Star(space), Lit("path"),
        Star(space), Lit("(")>>)

\* /(get|post|put|patch|delete)\s*\{/i, against the lowered line
reAkkaVerbBlock == Cat(<<Grp(1, verbWordLower), Star(space), Lit("{")>>)

\* /"([^"]*\/[^"]*)"/
reQuotedWithSlash ==
  Cat(<<Lit("\""),
        Grp(1, Cat(<<Star(NotIn({"\""})), Lit("/"), Star(NotIn({"\""}))>>)),
        Lit("\"")>>)

\* /case\s+(?:\w+\s*@\s+)?(?:Method\.)?(GET|POST|PUT|PATCH|DELETE)\s*->\s*Root/
reHttp4s ==
  Cat(<<Lit("case"), Plus(space),
        Opt(Cat(<<Plus(wordChar), Star(space), Lit("@"), Plus(space)>>)),
        Opt(Lit("Method.")), Grp(1, verbWord), Star(space), Lit("->"), Star(space),
        Lit("Root")>>)

\* /"([^"]+)"/g
reQuotedSegment == Cat(<<Lit("\""), Grp(1, Plus(NotIn({"\""}))), Lit("\"")>>)

\* /[A-Z]\w*\([^)]*\)/g
rePathVariable ==
  Cat(<<In(Range(UpperLetters)), Star(wordChar), Lit("("), Star(NotIn({")"})), Lit(")")>>)

\* /\(([^)]*)\)/
reParam == Cat(<<Lit("("), Grp(1, Star(NotIn({")"}))), Lit(")")>>)

\* /def\s+(\w+)\s*[\(\[:]/
reDef ==
  Cat(<<Lit("def"), Plus(space), Grp(1, Plus(wordChar)), Star(space), In({"(", "[", ":"})>>)

\* /val\s+(\w+)\s*:/
reVal == Cat(<<Lit("val"), Plus(space), Grp(1, Plus(wordChar)), Star(space), Lit(":")>>)

scalaIsClassDeclaration(line) == test(reScalaType, line) \/ test(reController, line)

scalaExtractClassName(line) == group(line, match(line, reScalaTypeName), 2)

\* isPlayFrameworkRoute taking every line that extractPlayRoute can read.
isPlayRouteOfAnyPath(line) == test(rePlayRoute, line)

isPlayFrameworkRoute(line) == test(rePlayVerbAndPath, line) /\ test(rePlayDotted, line)

\* An Endpoint | null result: the endpoint alone, or nothing.
Some(endpoint) == <<endpoint>>
None == <<>>

extractPlayRoute(line, filePath, lineNumber) ==
  LET routeMatch == match(line, rePlayRoute)
  IN  IF ~routeMatch.found THEN None
      ELSE Some([method |-> group(line, routeMatch, 1), path |-> group(line, routeMatch, 2),
            filePath |-> filePath, lineNumber |-> lineNumber, className |-> undefined,
            methodName |-> group(line, routeMatch, 3)])

isSpringAnnotation(line) == test(reMapping, line)

isAkkaHttpRoute(line) ==
  \/ test(reAkkaPath, line) /\ test(reAkkaVerb, toLowerCase(line))
  \/ test(reAkkaVerbOfPath, toLowerCase(line))
  \/ test(reAkkaVerbBlock, toLowerCase(line)) /\ includes(line, "path")

\* x || '' on a match group
orEmpty(x) == IF x = undefined THEN "" ELSE x

\* extractAkkaRoute that rejects the empty path only.
extractAkkaRouteOfAnyPath(line, filePath, lineNumber, className) ==
  LET methodMatch == match(toLowerCase(line), reAkkaVerb)
      method == toUpperCase(group(line, methodMatch, 1))
      pathMatch == match(line, reAkkaPath)
      primary == orEmpty(group(line, pathMatch, 2))
      stringMatch == match(line, reQuotedWithSlash)
      path == IF primary = "" THEN orEmpty(group(line, stringMatch, 1)) ELSE primary
  IN  IF ~methodMatch.found THEN None
      ELSE IF path = "" THEN None
      ELSE Some([method |-> method,
                 path |-> IF startsWith(path, "/") THEN path ELSE "/" \o path,
                 filePath |-> filePath, lineNumber |-> lineNumber,
                 className |-> className, methodName |-> undefined])

extractAkkaRoute(line, filePath, lineNumber, className) ==
  LET methodMatch == match(toLowerCase(line), reAkkaVerb)
      method == toUpperCase(group(line, methodMatch, 1))
      pathMatch == match(line, reAkkaPath)
      primary == orEmpty(group(line, pathMatch, 2))
      stringMatch == match(line, reQuotedWithSlash)
      path == IF primary = "" THEN orEmpty(group(line, stringMatch, 1)) ELSE primary
  IN  IF ~methodMatch.found THEN None
      ELSE IF path = "" \/ path = "/" THEN None
      ELSE Some([method |-> method,
                 path |-> IF startsWith(path, "/") THEN path ELSE "/" \o path,
                 filePath |-> filePath, lineNumber |-> lineNumber,
                 className |-> className, methodName |-> undefined])

scalaExtractPath(line) ==
  LET valueMatch == firstFound(<<match(line, reValue), match(line, reDirectPath),
                                 match(line, rePathAttr)>>)
  IN  IF valueMatch.found THEN group(line, valueMatch, 1) ELSE ""

\* The loop of extractMethodName: lines[i] with i 0-based, so line i + 1 here.
RECURSIVE scalaMethodNameFrom(_, _, _)
scalaMethodNameFrom(lines, i, end) ==
  IF i >= end THEN undefined
  ELSE LET methodMatch == firstFound(<<match(trim(lines[i + 1]), reDef),
                                       match(trim(lines[i + 1]), reVal)>>)
       IN  IF methodMatch.found THEN group(trim(lines[i + 1]), methodMatch, 1)
           ELSE scalaMethodNameFrom(lines, i + 1, end)

scalaExtractMethodName(lines, currentIndex) ==
  scalaMethodNameFrom(lines, currentIndex + 1, Min(currentIndex + 5, Len(lines)))

isHttp4sRoute(line) == test(reHttp4s, line)

\* match.slice(1, -1) of every quoted string
unquoted(ms) == [k \in 1..Len(ms) |-> SubSeq(ms[k], 2, Len(ms[k]) - 1)]

\* pathVariable giving the generic placeholder always.
pathVariableGeneric(text) == ":id"

\* BestekId(id) becomes :id; an extractor without an argument becomes :id too.
pathVariable(text) ==
  LET paramMatch == match(text, reParam)
      param == group(text, paramMatch, 1)
  IN  IF paramMatch.found /\ param # "" THEN ":" \o param ELSE ":id"

\* extractHttp4sRoute with one pass over the text after Root, which takes the
\* quoted strings and the path variables as they come.
extractHttp4sRouteInOnePass(line, filePath, lineNumber, className) ==
  LET methodMatch == match(line, reHttp4s)
      rootIndex == indexOf(line, "Root")
      pathPart == SubSeq(line, rootIndex + 4, Len(line))
      matches == matchAll(pathPart, Alt(<<reQuotedSegment, rePathVariable>>))
      pathSegments == [k \in 1..Len(matches) |->
                         IF startsWith(matches[k], "\"")
                         THEN SubSeq(matches[k], 2, Len(matches[k]) - 1)
                         ELSE pathVariable(matches[k])]
  IN  IF ~methodMatch.found THEN None
      ELSE IF rootIndex = 0 THEN None
      ELSE Some([method |-> group(line, methodMatch, 1),
                 path |-> IF Len(pathSegments) > 0 THEN "/" \o join(pathSegments, "/")
                          ELSE "/",
                 filePath |-> filePath, lineNumber |-> lineNumber,
                 className |-> className, methodName |-> undefined])

extractHttp4sRoute(line, filePath, lineNumber, className) ==
  LET methodMatch == match(line, reHttp4s)
      rootIndex == indexOf(line, "Root")
      pathPart == SubSeq(line, rootIndex + 4, Len(line))
      quotedMatches == matchAll(pathPart, reQuotedSegment)
      variableMatches == matchAll(pathPart, rePathVariable)
      pathSegments == unquoted(quotedMatches)
                        \o [k \in 1..Len(variableMatches) |-> pathVariable(variableMatches[k])]
  IN  IF ~methodMatch.found THEN None
      ELSE IF rootIndex = 0 THEN None
      ELSE Some([method |-> group(line, methodMatch, 1),
                 path |-> IF Len(pathSegments) > 0 THEN "/" \o join(pathSegments, "/")
                          ELSE "/",
                 filePath |-> filePath, lineNumber |-> lineNumber,
                 className |-> className, methodName |-> undefined])

\* The line the loop is at: lines[i].trim(), i 0-based.
scalaLine == trim(scala.lines[scala.i + 1])

ScalaInLoop == scala.pc = "loop" /\ scala.i < Len(scala.lines)

\* A push that enters the endpoint of the line twice.
scalaPushTwice(endpoint) ==
  [scala EXCEPT !.endpoints = scala.endpoints \o endpoint \o endpoint, !.i = scala.i + 1]

\* endpoints.push(endpoint) when the extraction gave one, and on to the next line.
scalaPush(endpoint) ==
  [scala EXCEPT !.endpoints = scala.endpoints \o endpoint, !.i = scala.i + 1]

\* A test file: extract returns the empty list before it splits the content.
ScalaTestFile ==
  /\ scala.pc = "start"
  /\ isTestFile(scala.filePath)
  /\ scala' = [scala EXCEPT !.pc = "done"]
  /\ UNCHANGED <<pm, cov, java, scan, finder, fn>>

ScalaStart ==
  /\ scala.pc = "start"
  /\ ~isTestFile(scala.filePath)
  /\ scala' = [scala EXCEPT !.pc = "loop", !.lines = split(scala.content, "\n")]
  /\ UNCHANGED <<pm, cov, java, scan, finder, fn>>

ScalaClassDeclaration ==
  /\ ScalaInLoop
  /\ scalaIsClassDeclaration(scalaLine)
  /\ scala' = [scala EXCEPT !.currentClassName = scalaExtractClassName(scalaLine),
                            !.i = scala.i + 1]
  /\ UNCHANGED <<pm, cov, java, scan, finder, fn>>

ScalaPlayRoute ==
  /\ ScalaInLoop
  /\ ~scalaIsClassDeclaration(scalaLine)
  /\ isPlayFrameworkRoute(scalaLine)
  /\ scala' = scalaPush(extractPlayRoute(scalaLine, scala.filePath, scala.i + 1))
  /\ UNCHANGED <<pm, cov, java, scan, finder, fn>>

ScalaSpringAnnotation ==
  /\ ScalaInLoop
  /\ ~scalaIsClassDeclaration(scalaLine)
  /\ ~isPlayFrameworkRoute(scalaLine)
  /\ isSpringAnnotation(scalaLine)
  /\ LET method == extractHttpMethod(scalaLine)
         path == scalaExtractPath(scalaLine)
         methodName == scalaExtractMethodName(scala.lines, scala.i)
     IN  scala' = scalaPush(
           IF method # null
           THEN Some([method |-> method, path |-> combinePaths(scala.baseMapping, path),
                      filePath |-> scala.filePath, lineNumber |-> scala.i + 1,
                      className |-> scala.currentClassName, methodName |-> methodName])
           ELSE None)
  /\ UNCHANGED <<pm, cov, java, scan, finder, fn>>

ScalaAkkaRoute ==
  /\ ScalaInLoop
  /\ ~scalaIsClassDeclaration(scalaLine)
  /\ ~isPlayFrameworkRoute(scalaLine)
  /\ ~isSpringAnnotation(scalaLine)
  /\ isAkkaHttpRoute(scalaLine)
  /\ scala' = scalaPush(extractAkkaRoute(scalaLine, scala.filePath, scala.i + 1,
                                         scala.currentClassName))
  /\ UNCHANGED <<pm, cov, java, scan, finder, fn>>

ScalaHttp4sRoute ==
  /\ ScalaInLoop
  /\ ~scalaIsClassDeclaration(scalaLine)
  /\ ~isPlayFrameworkRoute(scalaLine)
  /\ ~isSpringAnnotation(scalaLine)
  /\ ~isAkkaHttpRoute(scalaLine)
  /\ isHttp4sRoute(scalaLine)
  /\ scala' = scalaPush(extractHttp4sRoute(scalaLine, scala.filePath, scala.i + 1,
                                           scala.currentClassName))
  /\ UNCHANGED <<pm, cov, java, scan, finder, fn>>

ScalaOtherLine ==
  /\ ScalaInLoop
  /\ ~scalaIsClassDeclaration(scalaLine)
  /\ ~isPlayFrameworkRoute(scalaLine)
  /\ ~isSpringAnnotation(scalaLine)
  /\ ~isAkkaHttpRoute(scalaLine)
  /\ ~isHttp4sRoute(scalaLine)
  /\ scala' = [scala EXCEPT !.i = scala.i + 1]
  /\ UNCHANGED <<pm, cov, java, scan, finder, fn>>

ScalaReturn ==
  /\ scala.pc = "loop" /\ scala.i = Len(scala.lines)
  /\ scala' = [scala EXCEPT !.pc = "done"]
  /\ UNCHANGED <<pm, cov, java, scan, finder, fn>>

ScalaNext ==
  \/ ScalaTestFile \/ ScalaStart \/ ScalaClassDeclaration \/ ScalaPlayRoute
  \/ ScalaSpringAnnotation \/ ScalaAkkaRoute \/ ScalaHttp4sRoute \/ ScalaOtherLine
  \/ ScalaReturn

(***************************************************************************)
(* Inputs of the coverage analyzer                                         *)
(***************************************************************************)

MaxSegments == 2
MaxEndpoints == 2
MaxSpecs == 2
MaxSpecEndpoints == 2

SeqsUpTo(S, n) == UNION {[1..k -> S] : k \in 0..n}

\* Path segments: empty (a doubled or trailing '/'), two literals, and one
\* segment for each way isParameterSegment accepts.
SegmentPool == {"", "a", "b", "{}", ":id", "*", "v{n}"}

PathPool == {""} \cup {"/" \o join(segs, "/") : segs \in SeqsUpTo(SegmentPool, MaxSegments)}

\* The pairs of the documentation's matching examples.
ExamplePathPairs ==
  { <<"/users/123", "/users/{id}">>, <<"/api/posts", "/api/posts">>,
    <<"/v1/users", "/v2/users">>, <<"/users/profile", "/users/{id}/settings">> }

Idle == [pc |-> "idle"]

PmInit ==
  /\ \E pair \in (PathPool \X PathPool) \cup ExamplePathPairs :
        pm = [pc |-> "start", endpointPath |-> pair[1], specPath |-> pair[2],
              result |-> FALSE]
  /\ cov = Idle /\ java = Idle /\ scala = Idle
  /\ scan = Idle /\ finder = Idle /\ fn = Idle

\* One call of pathsMatch.
PathsMatch ==
  /\ pm.pc = "start"
  /\ pm' = [pm EXCEPT !.pc = "done", !.result = pathsMatch(pm.endpointPath, pm.specPath)]
  /\ UNCHANGED <<cov, java, scala, scan, finder, fn>>

PmNext == PathsMatch

SpecPaths == PmInit /\ [][PmNext]_vars

mkEndpoint(method, path, lineNumber) ==
  [method |-> method, path |-> path, filePath |-> "/src/UserController.java",
   lineNumber |-> lineNumber, className |-> "UserController", methodName |-> undefined]

EndpointPool ==
  { mkEndpoint("GET", "/users/123", 10), mkEndpoint("GET", "/users", 20) }

\* Method and path of the spec endpoints; the parser uppercases the method,
\* the analyzer compares it in any case.
SpecEndpointPool ==
  { [method |-> "get", path |-> "/users/{id}"], [method |-> "POST", path |-> "/users"] }

\* Specifications number n of a scan: its file and its endpoints, each with
\* an operationId of its own.
mkSpec(n, eps) ==
  [filePath |-> "/specs/api" \o ToString(n) \o ".yaml",
   endpoints |-> [k \in 1..Len(eps) |->
                    [method |-> eps[k].method, path |-> eps[k].path,
                     operationId |-> "op" \o ToString(n) \o "_" \o ToString(k)]]]

ApiSpecsPool ==
  { [n \in 1..Len(ss) |-> mkSpec(n, ss[n])] :
      ss \in SeqsUpTo(SeqsUpTo(SpecEndpointPool, MaxSpecEndpoints), MaxSpecs) }

CovInit ==
  /\ \E endpoints \in SeqsUpTo(EndpointPool, MaxEndpoints), apiSpecs \in ApiSpecsPool :
        cov = [pc |-> "start", endpoints |-> endpoints, apiSpecs |-> apiSpecs,
               result |-> <<>>]
  /\ pm = Idle /\ java = Idle /\ scala = Idle
  /\ scan = Idle /\ finder = Idle /\ fn = Idle

\* One call of analyzeEndpointCoverage.
AnalyzeEndpointCoverage ==
  /\ cov.pc = "start"
  /\ cov' = [cov EXCEPT !.pc = "done",
                        !.result = analyzeEndpointCoverage(cov.endpoints, cov.apiSpecs)]
  /\ UNCHANGED <<pm, java, scala, scan, finder, fn>>

CovNext == AnalyzeEndpointCoverage

SpecCoverage == CovInit /\ [][CovNext]_vars

(***************************************************************************)
(* Inputs of the Java extractor                                            *)
(***************************************************************************)

MaxJavaLines == 2

\* The documentation's Basic Controller, with the handlers of the
\* specification's example.
BasicController ==
  << "@RestController",
     "@RequestMapping(\"/api/users\")",
     "public class UserController {",
     "    @GetMapping",
     "    public List<User> getUsers() { ... }",
     "    @DeleteMapping(value = \"/{id}\")",
     "    public void deleteUser(...) { ... }",
     "}" >>

\* The documentation's Method-Specific Paths.
MethodSpecificPaths ==
  << "@RestController",
     "@RequestMapping(\"/api\")",
     "public class UserController {",
     "    @GetMapping(\"/users/{id}\")",
     "    public User getUser(@PathVariable Long id) { ... }",
     "",
     "    @DeleteMapping(value = \"/users/{id}\")",
     "    public void deleteUser(@PathVariable Long id) { ... }",
     "}" >>

\* The documentation's Generic RequestMapping.
GenericRequestMapping ==
  << "@RestController",
     "public class ApiController {",
     "    @RequestMapping(value = \"/data\", method = RequestMethod.PUT)",
     "    public Data updateData(@RequestBody Data data) { ... }",
     "}" >>

\* Two controllers in one file; the second declares no base path.
TwoControllers ==
  << "@RequestMapping(\"/api/users\")",
     "public class UserController {",
     "    @GetMapping(\"/all\")",
     "    public Users all() { ... }",
     "}",
     "public class HealthController {",
     "    @GetMapping(\"/health\")",
     "    public Health health() { ... }",
     "}" >>

JavaExampleFiles == {BasicController, MethodSpecificPaths, GenericRequestMapping, TwoControllers}

JavaLinePool ==
  { "@RestController",
    "public class ApiController {",
    "@RequestMapping(\"/api/\")",
    "  @RequestMapping(method = RequestMethod.HEAD)",
    "  @RequestMapping(path = \"data\", method = RequestMethod.POST)",
    "  @PostMapping(\"/posts\")",
    "  @PatchMapping(value = {\"/a\", \"/b\"})",
    "  @PutMapping",
    "  public Data updateData(@RequestBody Data data) {",
    "  }" }

JavaFiles == JavaExampleFiles \cup (SeqsUpTo(JavaLinePool, MaxJavaLines) \ {<<>>})

JavaPaths == {"/src/main/java/ApiController.java"}

JavaInit ==
  /\ \E file \in JavaFiles, filePath \in JavaPaths :
       java = [pc |-> "start", filePath |-> filePath, content |-> join(file, "\n"),
               lines |-> <<>>, i |-> 0, currentClassName |-> undefined,
               baseMapping |-> "", endpoints |-> <<>>]
  /\ pm = Idle /\ cov = Idle /\ scala = Idle
  /\ scan = Idle /\ finder = Idle /\ fn = Idle

SpecJava == JavaInit /\ [][JavaNext]_vars

(***************************************************************************)
(* Inputs of the Scala extractor                                           *)
(***************************************************************************)

MaxScalaLines == 2

\* A Spring controller written in Scala, with a class-level base mapping.
ScalaSpringController ==
  << "@RestController",
     "@RequestMapping(\"/api\")",
     "class UserController {",
     "  @GetMapping(\"/users\")",
     "  def getUsers(): List[User] = ???",
     "}" >>

\* The documentation's Play routes.
PlayRoutes ==
  << "GET     /api/users              controllers.UserController.getUsers",
     "POST    /api/users              controllers.UserController.createUser",
     "GET     /api/users/:id          controllers.UserController.getUser(id: Long)" >>

\* The documentation's Akka HTTP routes.
AkkaRoutes ==
  << "pathPrefix(\"api\" / \"users\") {",
     "  get {",
     "    complete(getUsers())",
     "  } ~",
     "  post {",
     "    entity(as[User]) { user =>",
     "      complete(createUser(user))",
     "    }",
     "  }",
     "}" >>

\* The documentation's http4s routes.
Http4sRoutes ==
  << "val routes: AuthedRoutes[User, F] = AuthedRoutes.of[User, F] {",
     "  case GET -> Root / \"users\" / \"about\" / \"me\" as user =>",
     "    Ok(user)",
     "  case context @ POST -> Root / \"voorlopigewijzigingen\" as user =>",
     "    createTempChange(context)",
     "}" >>

\* A handler for a verb that is no extraction target.
ScalaHeadMapping ==
  << "class PingController {",
     "  @RequestMapping(value = \"/ping\", method = RequestMethod.HEAD)",
     "  def ping(): Unit = ???",
     "}" >>

\* Lines that more than one framework detection takes: a route line that
\* names a mapping annotation, and a case line that holds a directive.
ScalaMixedLines ==
  << "object Routes {",
     "GET /users controllers.Users.list // was @PostMapping(\"/legacy\")",
     "  case GET -> Root / \"reports\" => path(\"summary\") { post { complete(summary) } }" >>

\* A directive after a path literal that holds the letters of another verb.
AkkaWidgets == << "path(\"widgets\") { post {" >>

\* A routes line whose only '.' is in the path.
PlayDottedPath == << "GET /api/v1.0/users handler" >>

ScalaExampleFiles ==
  {ScalaSpringController, PlayRoutes, AkkaRoutes, Http4sRoutes, ScalaHeadMapping,
   ScalaMixedLines, AkkaWidgets, PlayDottedPath}

\* The parts of a Play routes line: verb, blanks, path, blanks, controller
\* reference.
PlayVerbs == {"GET", "POST", "PUT", "PATCH", "DELETE"}
PlayGaps == {" ", "     "}
PlayPaths == {"/", "/api/users", "/api/users/:id"}
PlayControllers ==
  {"controllers.HomeController.index", "controllers.UserController.getUser(id: Long)"}

PlayLine(verb, gap, path, controller) == verb \o gap \o path \o gap \o controller

PlayLines ==
  { PlayLine(verb, gap, path, controller) :
      verb \in PlayVerbs, gap \in PlayGaps, path \in PlayPaths,
      controller \in PlayControllers }

\* A routes line alone, and one that follows a type declaration.
PlayFiles == { <<line>> : line \in PlayLines } \cup { <<"object Routes {", line>> : line \in PlayLines }

\* The parts of an http4s case line: binder, qualifier, verb, and what
\* follows Root together with the path it stands for.
Http4sBinders == {"", "context @ "}
Http4sQualifiers == {"", "Method."}
Http4sVerbs == {"GET", "POST", "PUT", "PATCH", "DELETE"}
Http4sRests ==
  { [text |-> "", path |-> "/"],
    [text |-> " =>", path |-> "/"],
    [text |-> " / \"voorlopigewijzigingen\"", path |-> "/voorlopigewijzigingen"],
    [text |-> " / \"users\" / \"about\" / \"me\" as user =>", path |-> "/users/about/me"],
    [text |-> " / \"users\" / \"met\" / \"rol\" / RolVar(rol)", path |-> "/users/met/rol/:rol"],
    [text |-> " / \"users\" / UserId(id) / \"posts\" =>", path |-> "/users/posts/:id"],
    [text |-> " / \"items\" / IntVar() =>", path |-> "/items/:id"],
    [text |-> " / \"users\" / UserId(id) / \"posts\"", path |-> "/users/posts/:id"],
    [text |-> " / OrgId(org) / \"users\" / UserId() / \"posts\" =>",
     path |-> "/users/posts/:org/:id"] }

Http4sLine(binder, qualifier, verb, rest) ==
  "case " \o binder \o qualifier \o verb \o " -> Root" \o rest

Http4sFiles ==
  { <<Http4sLine(binder, qualifier, verb, rest.text)>> :
      binder \in Http4sBinders, qualifier \in Http4sQualifiers,
      verb \in Http4sVerbs, rest \in Http4sRests }

\* Akka lines with the verb and the path they stand for, "" for a line that
\* gives no endpoint: the path of path(...) or pathPrefix(...), and the
\* quoted string with a '/' when that pattern gives none.
AkkaCases ==
  { [line |-> "  path(\"users\") { get { complete(users) } }", verb |-> "GET", path |-> "/users"],
    [line |-> "  pathPrefix(\"/api\") { post {", verb |-> "POST", path |-> "/api"],
    [line |-> "  path(\"users\" / \"all/active\") { delete {", verb |-> "DELETE", path |-> "/users"],
    [line |-> "  get(path(\"/\")) {", verb |-> "GET", path |-> ""],
    [line |-> "  path(\"\") { put {", verb |-> "PUT", path |-> ""],
    [line |-> "  path(\"\") { get { redirect(\"docs/index\") } }", verb |-> "GET", path |-> "/docs/index"],
    [line |-> "  get { path; complete(\"/health/live\") }", verb |-> "GET", path |-> "/health/live"] }

\* What comes before the Akka line: the lines, the class name that extract
\* holds after them, and the name of the type that encloses the line.
AkkaPrefixes ==
  { [lines |-> <<>>, className |-> undefined, enclosing |-> undefined],
    [lines |-> <<"object UserRoutes {">>, className |-> "UserRoutes", enclosing |-> "UserRoutes"],
    [lines |-> <<"trait Base {", "}", "object UserRoutes {">>, className |-> "UserRoutes",
     enclosing |-> "UserRoutes"],
    [lines |-> <<"object UserRoutes {", "@Controller">>, className |-> undefined,
     enclosing |-> "UserRoutes"] }

AkkaFiles == { prefix.lines \o <<c.line>> : prefix \in AkkaPrefixes, c \in AkkaCases }

ScalaLinePool ==
  { "object UserRoutes {",
    "@RequestMapping(\"/api\")",
    "  @PostMapping(value = \"users\")",
    "  def createUser(user: User) = ???",
    "  path(\"users\") { get { complete(users) } }",
    "  get(path(\"/\")) {",
    "  case GET -> Root / \"ping\" =>" }

ScalaFiles ==
  ScalaExampleFiles \cup PlayFiles \cup Http4sFiles \cup AkkaFiles
    \cup (SeqsUpTo(ScalaLinePool, MaxScalaLines) \ {<<>>})

ScalaSourcePaths == {"/app/controllers/UserController.scala", "/conf/routes"}

ScalaTestPaths ==
  { "/app/UserControllerTest.scala", "/app/UserSpec.scala", "/app/UserIT.scala",
    "/app/UserIntegrationTest.scala", "/app/UserTestDsl.scala",
    "/src/test/scala/Routes.scala", "/src/tests/Routes.scala" }

ScalaPaths == ScalaSourcePaths \cup ScalaTestPaths

ScalaInit ==
  /\ \E file \in ScalaFiles, filePath \in ScalaPaths :
       scala = [pc |-> "start", filePath |-> filePath, content |-> join(file, "\n"),
                lines |-> <<>>, i |-> 0, currentClassName |-> undefined,
                baseMapping |-> "", endpoints |-> <<>>]
  /\ pm = Idle /\ cov = Idle /\ java = Idle
  /\ scan = Idle /\ finder = Idle /\ fn = Idle

SpecScala == ScalaInit /\ [][ScalaNext]_vars

(***************************************************************************)
(* FileScanner                                                             *)
(***************************************************************************)

\* The locals of JavaEndpointExtractor.extract when it is called.
javaCallKeepingContext(filePath, content) ==
  [pc |-> "start", filePath |-> filePath, content |-> content, lines |-> <<>>, i |-> 0,
   currentClassName |-> IF java.pc = "idle" THEN undefined ELSE java.currentClassName,
   baseMapping |-> IF java.pc = "idle" THEN "" ELSE java.baseMapping,
   endpoints |-> <<>>]

javaCall(filePath, content) ==
  [pc |-> "start", filePath |-> filePath, content |-> content, lines |-> <<>>, i |-> 0,
   currentClassName |-> undefined, baseMapping |-> "", endpoints |-> <<>>]

\* The locals of ScalaEndpointExtractor.extract when it is called.
scalaCall(filePath, content) ==
  [pc |-> "start", filePath |-> filePath, content |-> content, lines |-> <<>>, i |-> 0,
   currentClassName |-> undefined, baseMapping |-> "", endpoints |-> <<>>]

\* patterns: '**/*.java', '**/*.scala'
patterns == <<".java", ".scala">>

\* ignore: the directories whose files the glob leaves out.
ignore == <<"node_modules", "target", "build", ".git", "test", "tests">>

\* The path below cwd, split into its directories and the file name.
relativeSegments(directoryPath, filePath) ==
  split(SubSeq(filePath, Len(directoryPath) + 2, Len(filePath)), "/")

\* '**/*.ext': any directories, then a file name ending in the extension.
matchesPattern(segments, ext) ==
  LET name == segments[Len(segments)]
  IN  endsWith(name, ext) /\ Len(name) > Len(ext) /\ ~startsWith(name, ".")

\* '**/dir/**': a directory of that name on the way to the file.
isIgnored(segments) ==
  \E d \in 1..(Len(segments) - 1), n \in 1..Len(ignore) : segments[d] = ignore[n]

isRelevantFile(directoryPath, filePath) ==
  /\ \E n \in 1..Len(patterns) :
       matchesPattern(relativeSegments(directoryPath, filePath), patterns[n])
  /\ ~isIgnored(relativeSegments(directoryPath, filePath))

\* The files of the listing that the glob gives back, in the order of the
\* listing.
RECURSIVE relevantFrom(_, _, _)
relevantFrom(directoryPath, entries, n) ==
  IF n > Len(entries) THEN <<>>
  ELSE (IF isRelevantFile(directoryPath, entries[n].path) THEN <<entries[n].path>> ELSE <<>>)
         \o relevantFrom(directoryPath, entries, n + 1)

findRelevantFiles(directoryPath, entries) == relevantFrom(directoryPath, entries, 1)

\* The entry of the directory that readFile(filePath) reads.
entryOf(filePath) ==
  scan.entries[CHOOSE n \in 1..Len(scan.entries) : scan.entries[n].path = filePath]

\* The file the loop of scanDirectory is at.
scanFile == scan.files[scan.k]

ScanInLoop == scan.pc = "loop" /\ scan.k <= Len(scan.files)

\* findRelevantFiles throws: the outer catch records it and the scan returns.
ScanDirectoryFails ==
  /\ scan.pc = "start"
  /\ ~scan.listable
  /\ scan' = [scan EXCEPT !.pc = "done",
                          !.result.errors = @ \o <<"Failed to scan directory: " \o scan.failure>>]
  /\ UNCHANGED <<pm, cov, java, scala, finder, fn>>

ScanFindRelevantFiles ==
  /\ scan.pc = "start"
  /\ scan.listable
  /\ LET files == findRelevantFiles(scan.directoryPath, scan.entries)
     IN  scan' = [scan EXCEPT !.pc = "loop", !.files = files, !.k = 1,
                              !.result.totalFiles = Len(files)]
  /\ UNCHANGED <<pm, cov, java, scala, finder, fn>>

\* An inner catch that counts the file as scanned all the same.
ScanReadFailsCounted ==
  /\ ScanInLoop
  /\ ~entryOf(scanFile).readable
  /\ scan' = [scan EXCEPT !.k = @ + 1,
                          !.result.scannedFiles = @ + 1,
                          !.result.errors =
                             @ \o <<"Failed to process " \o scanFile \o ": " \o scan.failure>>]
  /\ UNCHANGED <<pm, cov, java, scala, finder, fn>>

\* A failure that ends the loop, as if the try were around the loop.
ScanReadFailsAndStops ==
  /\ ScanInLoop
  /\ ~entryOf(scanFile).readable
  /\ scan' = [scan EXCEPT !.k = Len(scan.files) + 1,
                          !.result.errors =
                             @ \o <<"Failed to process " \o scanFile \o ": " \o scan.failure>>]
  /\ UNCHANGED <<pm, cov, java, scala, finder, fn>>

\* readFile throws: the inner catch records the file and the loop goes on.
ScanReadFails ==
  /\ ScanInLoop
  /\ ~entryOf(scanFile).readable
  /\ scan' = [scan EXCEPT !.k = @ + 1,
                          !.result.errors =
                             @ \o <<"Failed to process " \o scanFile \o ": " \o scan.failure>>]
  /\ UNCHANGED <<pm, cov, java, scala, finder, fn>>

\* extractEndpoints: a path ending in .java goes to the Java extractor.
ScanExtractJava ==
  /\ ScanInLoop
  /\ entryOf(scanFile).readable
  /\ endsWith(scanFile, ".java")
  /\ scan' = [scan EXCEPT !.pc = "java"]
  /\ java' = javaCall(scanFile, entryOf(scanFile).content)
  /\ UNCHANGED <<pm, cov, scala, finder, fn>>

\* extractEndpoints: else a path ending in .scala goes to the Scala extractor.
ScanExtractScala ==
  /\ ScanInLoop
  /\ entryOf(scanFile).readable
  /\ ~endsWith(scanFile, ".java")
  /\ endsWith(scanFile, ".scala")
  /\ scan' = [scan EXCEPT !.pc = "scala"]
  /\ scala' = scalaCall(scanFile, entryOf(scanFile).content)
  /\ UNCHANGED <<pm, cov, java, finder, fn>>

\* The extractor has returned: result.endpoints.push(...endpoints) and
\* result.scannedFiles++.
ScanPushJava ==
  /\ scan.pc = "java" /\ java.pc = "done"
  /\ scan' = [scan EXCEPT !.pc = "loop", !.k = @ + 1,
                          !.result.endpoints = @ \o java.endpoints,
                          !.result.scannedFiles = @ + 1]
  /\ UNCHANGED <<pm, cov, java, scala, finder, fn>>

ScanPushScala ==
  /\ scan.pc = "scala" /\ scala.pc = "done"
  /\ scan' = [scan EXCEPT !.pc = "loop", !.k = @ + 1,
                          !.result.endpoints = @ \o scala.endpoints,
                          !.result.scannedFiles = @ + 1]
  /\ UNCHANGED <<pm, cov, java, scala, finder, fn>>

ScanReturn ==
  /\ scan.pc = "loop" /\ scan.k > Len(scan.files)
  /\ scan' = [scan EXCEPT !.pc = "done"]
  /\ UNCHANGED <<pm, cov, java, scala, finder, fn>>

\* scanDirectory with the two extractors it calls.  The last return of
\* extractEndpoints (no extractor) is never reached: findRelevantFiles lists
\* .java and .scala files only.
ScanNext ==
  \/ ScanDirectoryFails \/ ScanFindRelevantFiles \/ ScanReadFails
  \/ ScanExtractJava \/ ScanExtractScala \/ ScanPushJava \/ ScanPushScala \/ ScanReturn
  \/ JavaNext \/ ScalaNext

(***************************************************************************)
(* Inputs of the file scanner                                              *)
(***************************************************************************)

MaxFiles == 2

\* A controller with a base path, and a handler outside any class.
JavaUserController ==
  << "@RequestMapping(\"/api\")",
     "public class UserController {",
     "  @GetMapping(\"/users\")",
     "  public Users getUsers() {" >>

JavaHealth == << "@GetMapping(\"/health\")" >>

\* A Scala file with a line for every branch of the extractor, and a route
\* outside any type.
ScalaUserRoutes ==
  << "object UserRoutes {",
     "  path(\"users\") { get {",
     "  case GET -> Root / \"ping\" =>",
     "  @PostMapping(\"/users\")",
     "GET /api/users controllers.Users.list",
     "}" >>

ScalaPing == << "case POST -> Root / \"ping\"" >>

mkEntry(path, file, readable) ==
  [path |-> path, content |-> join(file, "\n"), readable |-> readable]

DirectoryPool ==
  { mkEntry("/proj/src/main/java/UserController.java", JavaUserController, TRUE),
    mkEntry("/proj/src/main/java/Health.java", JavaHealth, TRUE),
    mkEntry("/proj/src/main/java/Locked.java", JavaHealth, FALSE),
    mkEntry("/proj/app/UserRoutes.scala", ScalaUserRoutes, TRUE),
    mkEntry("/proj/app/Ping.scala", ScalaPing, TRUE),
    mkEntry("/proj/app/PingSpec.scala", ScalaPing, TRUE),
    mkEntry("/proj/conf/routes", PlayRoutes, TRUE),
    mkEntry("/proj/src/test/java/HealthTest.java", JavaHealth, TRUE),
    mkEntry("/proj/target/Generated.scala", ScalaPing, TRUE) }

\* The listings of a directory: files of the pool, each at most once.
Listings ==
  { entries \in SeqsUpTo(DirectoryPool, MaxFiles) :
      \A m, n \in 1..Len(entries) : m # n => entries[m].path # entries[n].path }

ScanInit ==
  /\ \E entries \in Listings, listable \in BOOLEAN :
       scan = [pc |-> "start", directoryPath |-> "/proj", listable |-> listable,
               failure |-> "EACCES: permission denied",
               entries |-> entries, files |-> <<>>, k |-> 0,
               result |-> [totalFiles |-> 0, scannedFiles |-> 0, endpoints |-> <<>>,
                           errors |-> <<>>]]
  /\ java = Idle /\ scala = Idle
  /\ pm = Idle /\ cov = Idle /\ finder = Idle /\ fn = Idle

SpecScan == ScanInit /\ [][ScanNext]_vars

(***************************************************************************)
(* ApiSpecFinder                                                           *)
(***************************************************************************)

\* A value of a parsed JSON or YAML document: its kind, String(value), and
\* for an object its members in the order of Object.entries.
JValue(type, text, members) == [type |-> type, text |-> text, members |-> members]

JUndefined == JValue("undefined", "undefined", <<>>)
JNull == JValue("null", "null", <<>>)
JString(s) == JValue("string", s, <<>>)
JNumber(text) == JValue("number", text, <<>>)
JBoolean(b) == JValue("boolean", IF b THEN "true" ELSE "false", <<>>)
JObject(members) == JValue("object", "[object Object]", members)

member(key, value) == [key |-> key, value |-> value]

\* typeof value
typeOf(value) == IF value.type = "null" THEN "object" ELSE value.type

\* The value counts as true in a condition.
truthy(value) ==
  CASE value.type = "undefined" -> FALSE
    [] value.type = "null" -> FALSE
    [] value.type = "string" -> value.text # ""
    [] value.type = "number" -> value.text \notin {"0", "NaN"}
    [] value.type = "boolean" -> value.text = "true"
    [] OTHER -> TRUE

\* data[key], undefined when there is no such member
get(data, key) ==
  IF \E n \in 1..Len(data.members) : data.members[n].key = key
  THEN data.members[CHOOSE n \in 1..Len(data.members) : data.members[n].key = key].value
  ELSE JUndefined

\* a || b
orElse(a, b) == IF truthy(a) THEN a ELSE b

\* /^3\.\d+\.\d+/
reOpenApiVersion ==
  Cat(<<Bol, Lit("3."), Plus(In(Digits)), Lit("."), Plus(In(Digits))>>)

\* isValidApiSpec without the check of info.
isValidApiSpecWithoutInfo(data) ==
  /\ truthy(data) /\ typeOf(data) = "object"
  /\ truthy(orElse(get(data, "openapi"), get(data, "swagger")))
  /\ truthy(get(data, "paths")) /\ typeOf(get(data, "paths")) = "object"
  /\ IF truthy(get(data, "openapi"))
     THEN test(reOpenApiVersion, get(data, "openapi").text)
     ELSE truthy(get(data, "swagger")) => get(data, "swagger") = JString("2.0")

isValidApiSpec(data) ==
  IF ~truthy(data) \/ typeOf(data) # "object" THEN FALSE
  ELSE IF ~truthy(orElse(get(data, "openapi"), get(data, "swagger"))) THEN FALSE
  ELSE IF ~truthy(get(data, "paths")) \/ typeOf(get(data, "paths")) # "object" THEN FALSE
  ELSE IF ~(truthy(get(data, "info")) /\ typeOf(get(data, "info")) = "object") THEN FALSE
  ELSE IF truthy(get(data, "openapi"))
       THEN test(reOpenApiVersion, get(data, "openapi").text)
       ELSE IF truthy(get(data, "swagger"))
            THEN get(data, "swagger") = JString("2.0")
            ELSE TRUE

methods == <<"get", "post", "put", "patch", "delete", "head", "options">>

\* The inner loop of extractEndpoints over methods, from the n-th on.
RECURSIVE operationsFrom(_, _, _)
operationsFrom(path, pathItem, n) ==
  IF n > Len(methods) THEN <<>>
  ELSE LET operation == get(pathItem, methods[n])
       IN  (IF truthy(operation)
            THEN << [method |-> toUpperCase(methods[n]), path |-> path,
                     operationId |-> get(operation, "operationId"),
                     summary |-> get(operation, "summary")] >>
            ELSE <<>>)
             \o operationsFrom(path, pathItem, n + 1)

\* The outer loop of extractEndpoints over Object.entries(paths).
RECURSIVE pathItemsFrom(_, _)
pathItemsFrom(paths, n) ==
  IF n > Len(paths.members) THEN <<>>
  ELSE LET path == paths.members[n].key
           pathItem == paths.members[n].value
       IN  (IF typeOf(pathItem) # "object" \/ pathItem.type = "null" THEN <<>>
            ELSE operationsFrom(path, pathItem, 1))
             \o pathItemsFrom(paths, n + 1)

specExtractEndpoints(specData) ==
  pathItemsFrom(orElse(get(specData, "paths"), JObject(<<>>)), 1)

\* JSON.parse or yaml.parse throws: the catch returns null.
FinderParseFails ==
  /\ finder.pc = "start"
  /\ ~finder.parsed.ok
  /\ finder' = [finder EXCEPT !.pc = "done", !.result = None]
  /\ UNCHANGED <<pm, cov, java, scala, scan, fn>>

FinderRejects ==
  /\ finder.pc = "start"
  /\ finder.parsed.ok
  /\ ~isValidApiSpec(finder.parsed.data)
  /\ finder' = [finder EXCEPT !.pc = "done", !.result = None]
  /\ UNCHANGED <<pm, cov, java, scala, scan, fn>>

FinderAccepts ==
  /\ finder.pc = "start"
  /\ finder.parsed.ok
  /\ isValidApiSpec(finder.parsed.data)
  /\ LET specData == finder.parsed.data
     IN  finder' =
           [finder EXCEPT
              !.pc = "done",
              !.result =
                 Some([filePath |-> finder.filePath,
                       type |-> IF truthy(get(specData, "openapi")) THEN "openapi"
                                ELSE "swagger",
                       version |-> orElse(orElse(get(specData, "openapi"),
                                                 get(specData, "swagger")),
                                          JString("2.0")),
                       endpoints |-> specExtractEndpoints(specData)])]
  /\ UNCHANGED <<pm, cov, java, scala, scan, fn>>

\* parseAndValidateSpecFile
FinderNext == FinderParseFails \/ FinderRejects \/ FinderAccepts

(***************************************************************************)
(* Inputs of the specification parser                                      *)
(***************************************************************************)

\* Path items with operations that are objects, and keys that are no verbs.
UserPaths ==
  JObject(<<
    member("/users",
      JObject(<< member("parameters", JObject(<<>>)),
                 member("get", JObject(<< member("operationId", JString("listUsers")),
                                          member("summary", JString("List users")) >>)),
                 member("post", JObject(<< member("operationId", JString("createUser")) >>)),
                 member("head", JObject(<<>>)) >>)),
    member("/users/{id}",
      JObject(<< member("delete", JObject(<< member("summary", JString("Delete")) >>)),
                 member("options", JObject(<< member("operationId", JString("opts")) >>)),
                 member("trace", JObject(<< member("operationId", JString("trace")) >>)),
                 member("GET", JObject(<< member("operationId", JString("upper")) >>)) >>)) >>)

\* Path items whose verb keys hold values that are no objects, and paths
\* whose items are no objects.
ScalarPaths ==
  JObject(<<
    member("/ping",
      JObject(<< member("get", JString("pong")),
                 member("put", JNumber("1")),
                 member("patch", JBoolean(TRUE)),
                 member("post", JBoolean(FALSE)),
                 member("delete", JNull),
                 member("head", JString("")),
                 member("options", JObject(<< member("summary", JString("Options")) >>)) >>)),
    member("/text", JString("get")),
    member("/null", JNull) >>)

OpenApiValues ==
  { JUndefined, JString("3.0.3"), JString("3.1.0-rc1"), JString("2.5.0"), JString("3.1"),
    JString(""), JNumber("3") }
SwaggerValues == { JUndefined, JString("2.0"), JString("1.2"), JNumber("2") }
InfoValues == { JUndefined, JObject(<< member("title", JString("API")) >>), JString("API") }
PathsValues == { JUndefined, JObject(<<>>), UserPaths, ScalarPaths, JString("/users"), JNull }

\* The members that are there, in the order they are written.
present(members) == SelectSeq(members, LAMBDA m : m.value # JUndefined)

mkDocument(openapi, swagger, info, paths) ==
  JObject(present(<< member("openapi", openapi), member("swagger", swagger),
                     member("info", info), member("paths", paths) >>))

Documents ==
  { mkDocument(openapi, swagger, info, paths) :
      openapi \in OpenApiValues, swagger \in SwaggerValues,
      info \in InfoValues, paths \in PathsValues }
    \cup { JNull, JString("openapi: 3.0.3"), JNumber("3"), JBoolean(TRUE) }

\* What JSON.parse or yaml.parse makes of the content: a document, or a
\* syntax error.
ParseOutcomes ==
  { [ok |-> TRUE, data |-> data] : data \in Documents }
    \cup { [ok |-> FALSE, data |-> JUndefined] }

SpecFilePaths == {"/proj/docs/openapi.json", "/proj/docs/swagger.yaml"}

FinderInit ==
  /\ \E filePath \in SpecFilePaths, parsed \in ParseOutcomes :
       finder = [pc |-> "start", filePath |-> filePath, parsed |-> parsed, result |-> None]
  /\ pm = Idle /\ cov = Idle /\ java = Idle /\ scala = Idle /\ scan = Idle /\ fn = Idle

SpecFinder == FinderInit /\ [][FinderNext]_vars

(***************************************************************************)
(* The path utilities on their own, and the two extractors together        *)
(***************************************************************************)

MaxPathLen == 5
MaxPartLen == 3

\* The strings of up to n characters of the alphabet.
StringsUpTo(alphabet, n) == { join(s, "") : s \in SeqsUpTo(alphabet, n) }

NormalizeInputs == StringsUpTo({"/", "a", "b"}, MaxPathLen) \cup {"//api///users/", "/api/users"}

NormalizeInit ==
  /\ \E path \in NormalizeInputs : fn = [pc |-> "start", path |-> path, result |-> ""]
  /\ pm = Idle /\ cov = Idle /\ java = Idle /\ scala = Idle /\ scan = Idle /\ finder = Idle

\* normalizePath(path)
NormalizePath ==
  /\ fn.pc = "start"
  /\ fn' = [fn EXCEPT !.pc = "done", !.result = normalizePath(fn.path)]
  /\ UNCHANGED <<pm, cov, java, scala, scan, finder>>

SpecNormalize == NormalizeInit /\ [][NormalizePath]_vars

CombineInputs ==
  (StringsUpTo({"/", "a"}, MaxPartLen) \X StringsUpTo({"/", "a"}, MaxPartLen))
    \cup { <<"/api", "posts">>, <<"/api/", "/posts">>, <<"", "/users">>, <<"/api//", "posts">> }

CombineInit ==
  /\ \E pair \in CombineInputs :
       fn = [pc |-> "start", basePath |-> pair[1], endpointPath |-> pair[2], result |-> ""]
  /\ pm = Idle /\ cov = Idle /\ java = Idle /\ scala = Idle /\ scan = Idle /\ finder = Idle

\* combinePaths(basePath, endpointPath)
CombinePaths ==
  /\ fn.pc = "start"
  /\ fn' = [fn EXCEPT !.pc = "done", !.result = combinePaths(fn.basePath, fn.endpointPath)]
  /\ UNCHANGED <<pm, cov, java, scala, scan, finder>>

SpecCombine == CombineInit /\ [][CombinePaths]_vars

\* extract of the Java extractor on a Java file, or of the Scala extractor
\* on a Scala file.
ExtractorsInit == JavaInit \/ ScalaInit

ExtractorsNext == JavaNext \/ ScalaNext

SpecExtractors == ExtractorsInit /\ [][ExtractorsNext]_vars

(***************************************************************************)
(* Properties of the coverage analyzer                                     *)
(***************************************************************************)

\* The positions <<n, k>> of the spec endpoints that the endpoint matches:
\* same method in any letter case, and a matching path.
Matches(endpoint, apiSpecs) ==
  { nk \in (1..Len(apiSpecs)) \X (1..MaxSpecEndpoints + 1) :
      /\ nk[2] <= Len(apiSpecs[nk[1]].endpoints)
      /\ toLowerCase(endpoint.method) = toLowerCase(apiSpecs[nk[1]].endpoints[nk[2]].method)
      /\ pathsMatch(endpoint.path, apiSpecs[nk[1]].endpoints[nk[2]].path) }

StatusOf(n) == cov.result[n].apiSpecCoverage.status

OnlyPostUsers(apiSpecs) ==
  \A n \in 1..Len(apiSpecs) : \A k \in 1..Len(apiSpecs[n].endpoints) :
     apiSpecs[n].endpoints[k].method = "POST" /\ apiSpecs[n].endpoints[k].path = "/users"

\* C1: with a non-empty list of specifications an endpoint is 'covered' if
\* and only if some spec endpoint of some specification has the same method
\* (in any letter case) and a matching path, and is 'not-covered' otherwise;
\* GET /users against specifications that hold only POST /users is
\* 'not-covered'.
C1_CoveredIffSomeSpecEndpointMatches ==
  (cov.pc = "done" /\ Len(cov.apiSpecs) > 0) =>
    \A n \in 1..Len(cov.endpoints) :
      /\ StatusOf(n) = (IF Matches(cov.endpoints[n], cov.apiSpecs) # {}
                        THEN "covered" ELSE "not-covered")
      /\ (cov.endpoints[n].method = "GET" /\ cov.endpoints[n].path = "/users"
            /\ OnlyPostUsers(cov.apiSpecs)) => StatusOf(n) = "not-covered"

\* One call with both outcomes: GET /users/123 came out covered, and
\* GET /users, with a POST /users among the spec endpoints, not-covered.
C1_Witness ==
  /\ cov.pc = "done" /\ Len(cov.endpoints) = 2 /\ Len(cov.apiSpecs) > 0
  /\ cov.endpoints[1].path = "/users/123" /\ StatusOf(1) = "covered"
  /\ cov.endpoints[2].path = "/users" /\ StatusOf(2) = "not-covered"
  /\ \E n \in 1..Len(cov.apiSpecs) : \E k \in 1..Len(cov.apiSpecs[n].endpoints) :
        cov.apiSpecs[n].endpoints[k].method = "POST"
        /\ cov.apiSpecs[n].endpoints[k].path = "/users"

\* C2: a returned endpoint is 'no-spec-found' if and only if the list of
\* specifications is empty, also when every specification of a non-empty
\* list has no endpoints.
C2_NoSpecFoundIffNoSpecs ==
  cov.pc = "done" =>
    /\ Len(cov.result) = Len(cov.endpoints)
    /\ \A n \in 1..Len(cov.result) :
         (StatusOf(n) = "no-spec-found") <=> (Len(cov.apiSpecs) = 0)

\* Two endpoints analyzed against no specification at all.
C2_Witness ==
  /\ cov.pc = "done" /\ cov.apiSpecs = <<>> /\ Len(cov.result) = 2
  /\ \A n \in 1..2 : StatusOf(n) = "no-spec-found"

\* The earliest position among the matches: the earliest specification, and
\* the earliest spec endpoint within it.
FirstOf(hits) ==
  CHOOSE nk \in hits :
    \A other \in hits : nk[1] < other[1] \/ (nk[1] = other[1] /\ nk[2] <= other[2])

\* C3: a 'covered' endpoint carries the first match: the earliest matching
\* spec endpoint of the earliest specification that has one, with that
\* specification's file as specFile.
C3_CoveredCarriesFirstMatch ==
  cov.pc = "done" =>
    \A n \in 1..Len(cov.result) :
      StatusOf(n) = "covered" =>
        LET hits == Matches(cov.endpoints[n], cov.apiSpecs)
            first == FirstOf(hits)
        IN  /\ hits # {}
            /\ cov.result[n].apiSpecCoverage.matchedEndpoint
                  = cov.apiSpecs[first[1]].endpoints[first[2]]
            /\ cov.result[n].apiSpecCoverage.specFile = cov.apiSpecs[first[1]].filePath

\* A covered endpoint that matches twice in one specification and again in
\* another one, and carries the first entry of the first specification.
C3_Witness ==
  /\ cov.pc = "done" /\ Len(cov.result) >= 1 /\ StatusOf(1) = "covered"
  /\ \E a, b, c \in Matches(cov.endpoints[1], cov.apiSpecs) :
        a[1] = b[1] /\ a[2] # b[2] /\ c[1] # a[1]
  /\ cov.result[1].apiSpecCoverage.matchedEndpoint.operationId = "op1_1"

(***************************************************************************)
(* Properties of the path matcher                                          *)
(***************************************************************************)

\* Equal after normalization, or the same number of segments with, at
\* every position, a parameter segment on either side or equal segments.
MatchRule(endpointPath, specPath) ==
  LET a == split(normalizePath(endpointPath), "/")
      b == split(normalizePath(specPath), "/")
  IN  \/ normalizePath(endpointPath) = normalizePath(specPath)
      \/ /\ Len(a) = Len(b)
         /\ \A i \in 1..Len(a) :
              isParameterSegment(a[i]) \/ isParameterSegment(b[i]) \/ a[i] = b[i]

\* C4: two paths match exactly when, after normalizing both, they are equal
\* or have the same number of segments and at every position one of the two
\* segments is a parameter segment or the two are equal; /users/123 matches
\* /users/{id}; normalized paths of different segment counts never match.
C4_PathsMatchRule ==
  pm.pc = "done" =>
    /\ pm.result = MatchRule(pm.endpointPath, pm.specPath)
    /\ (pm.endpointPath = "/users/123" /\ pm.specPath = "/users/{id}") => pm.result
    /\ Len(split(normalizePath(pm.endpointPath), "/"))
          # Len(split(normalizePath(pm.specPath), "/")) => ~pm.result

\* /users/123 was matched against /users/{id}.
C4_Witness ==
  pm.pc = "done" /\ pm.endpointPath = "/users/123" /\ pm.specPath = "/users/{id}"
  /\ pm.result

(***************************************************************************)
(* Properties of the Java extractor                                        *)
(***************************************************************************)

JavaDone(file) == java.pc = "done" /\ java.content = join(file, "\n")

javaEndpoint(method, path, lineNumber, className, methodName) ==
  [method |-> method, path |-> path, filePath |-> java.filePath,
   lineNumber |-> lineNumber, className |-> className, methodName |-> methodName]

\* C5: every method-mapping annotation yields one endpoint that carries the
\* name of the handler it decorates, the enclosing class and the base path
\* combined with its own path; the Basic Controller yields exactly
\* GET /api/users (getUsers) and DELETE /api/users/{id} (deleteUser), both
\* of UserController.
C5_BasicControllerEndpoints ==
  JavaDone(BasicController) =>
    java.endpoints =
      << javaEndpoint("GET", "/api/users", 4, "UserController", "getUsers"),
         javaEndpoint("DELETE", "/api/users/{id}", 6, "UserController", "deleteUser") >>

\* C6: a @RequestMapping on a handler method emits an endpoint, with the
\* verb of method = RequestMethod.<VERB> (GET without one) and the base path
\* combined with its path; the Generic RequestMapping controller yields
\* PUT /data.
C6_HandlerRequestMappingEmits ==
  JavaDone(GenericRequestMapping) =>
    \E n \in 1..Len(java.endpoints) :
      /\ java.endpoints[n].method = "PUT"
      /\ java.endpoints[n].path = "/data"
      /\ java.endpoints[n].lineNumber = 3

(***************************************************************************)
(* Properties of the Scala extractor                                       *)
(***************************************************************************)

\* The file was split into these lines and the loop has gone through them all.
ScalaScanned(file) == scala.pc = "done" /\ scala.lines = file

scalaEndpoint(method, path, lineNumber, className, methodName) ==
  [method |-> method, path |-> path, filePath |-> scala.filePath,
   lineNumber |-> lineNumber, className |-> className, methodName |-> methodName]

\* C7: a class-level @RequestMapping with a path sets the base path, and the
\* Spring endpoints of that type get combine(basePath, extractedPath):
\* @RequestMapping("/api") before class UserController and a later
\* @GetMapping("/users") yield an endpoint with path /api/users.
C7_BaseMappingIsCombined ==
  ScalaScanned(ScalaSpringController) =>
    \E n \in 1..Len(scala.endpoints) :
      /\ scala.endpoints[n].method = "GET"
      /\ scala.endpoints[n].path = "/api/users"

PlayPrefixes == {<<>>, <<"object Routes {">>}

\* The endpoint of a Play routes line that closes the file.
playEndpoint(file, verb, path, controller) ==
  scalaEndpoint(verb, path, Len(file), undefined, controller)

\* C8: a Play routes line `<VERB> <path> <controller reference>` whose path
\* is '/' followed by at least one more non-blank character, and whose
\* controller reference is a dotted name, gives exactly one endpoint with
\* that verb, the path token as written, methodName the whole controller
\* reference to the end of the line, and no className, also after a type
\* declaration; a line whose path is just '/' gives no endpoint.
C8_PlayRouteEndpoint ==
  \A verb \in PlayVerbs, gap \in PlayGaps, path \in PlayPaths,
     controller \in PlayControllers, prefix \in PlayPrefixes :
    LET file == prefix \o <<PlayLine(verb, gap, path, controller)>>
    IN  ScalaScanned(file) =>
          scala.endpoints = IF path = "/" THEN <<>>
                            ELSE <<playEndpoint(file, verb, path, controller)>>

C8_Witness ==
  /\ ScalaScanned(<<"object Routes {",
                    PlayLine("GET", "     ", "/api/users/:id",
                             "controllers.UserController.getUser(id: Long)")>>)
  /\ scala.currentClassName = "Routes"
  /\ Len(scala.endpoints) = 1

\* C8 as stated: every Play routes line whose path starts with '/' gives
\* exactly one endpoint with that verb, path and controller reference.
C8_AnyPathStartingWithSlash ==
  \A verb \in PlayVerbs, gap \in PlayGaps, path \in PlayPaths,
     controller \in PlayControllers, prefix \in PlayPrefixes :
    LET file == prefix \o <<PlayLine(verb, gap, path, controller)>>
    IN  ScalaScanned(file) =>
          scala.endpoints = <<playEndpoint(file, verb, path, controller)>>

\* C9: a line `case [<ident> @] [Method.]<VERB> -> Root ...` gives one
\* endpoint with that verb and the path '/' followed by the segments found
\* after Root joined by '/', the quoted ones first and then the path
\* variables as :<arg>, or just '/' when there are none.
C9_Http4sEndpoint ==
  \A binder \in Http4sBinders, qualifier \in Http4sQualifiers,
     verb \in Http4sVerbs, rest \in Http4sRests :
    ScalaScanned(<<Http4sLine(binder, qualifier, verb, rest.text)>>) =>
      scala.endpoints = <<scalaEndpoint(verb, rest.path, 1, undefined, undefined)>>

C9_Witness ==
  /\ ScalaScanned(<<Http4sLine("context @ ", "Method.", "GET",
                               " / \"users\" / \"met\" / \"rol\" / RolVar(rol)")>>)
  /\ Len(scala.endpoints) = 1
  /\ scala.endpoints[1].path = "/users/met/rol/:rol"

\* The paths of test files: the five name endings and the two directories.
IsTestPath(filePath) ==
  \/ \E ending \in {"Test.scala", "Spec.scala", "IT.scala", "IntegrationTest.scala",
                    "TestDsl.scala"} : endsWith(filePath, ending)
  \/ \E segment \in {"/test/", "/tests/"} : includes(filePath, segment)

\* C10: for a file path ending in Test.scala, Spec.scala, IT.scala,
\* IntegrationTest.scala or TestDsl.scala, or holding /test/ or /tests/, the
\* extractor returns no endpoint and scans no line, whatever the content.
C10_TestFilesYieldNothing ==
  IsTestPath(scala.filePath) =>
    /\ scala.pc \in {"start", "done"}
    /\ scala.endpoints = <<>>
    /\ scala.lines = <<>>
    /\ scala.i = 0

C10_Witness ==
  /\ scala.pc = "done"
  /\ scala.filePath = "/src/test/scala/Routes.scala"
  /\ scala.content = join(PlayRoutes, "\n")
  /\ scala.endpoints = <<>>

(***************************************************************************)
(* Properties of the file scanner                                          *)
(***************************************************************************)

RoutesFile == "/proj/conf/routes"

\* C11: the dispatcher sends a path ending in .java to the Java extractor and
\* a path ending in .scala or with the basename routes to the Scala
\* extractor, so the Play endpoints of a file named routes are in the scan
\* result.
C11_RoutesFileIsScanned ==
  ( /\ scan.pc = "done"
    /\ scan.listable
    /\ \E n \in 1..Len(scan.entries) : scan.entries[n].path = RoutesFile )
  => \E m \in 1..Len(scan.result.endpoints) :
       /\ scan.result.endpoints[m].filePath = RoutesFile
       /\ scan.result.endpoints[m].method = "GET"
       /\ scan.result.endpoints[m].path = "/api/users"

anEndpoint(method, path, filePath, lineNumber, className, methodName) ==
  [method |-> method, path |-> path, filePath |-> filePath,
   lineNumber |-> lineNumber, className |-> className, methodName |-> methodName]

\* What extract gives for each file of the pool when it is the only file.
AloneEndpoints(filePath) ==
  CASE filePath = "/proj/src/main/java/UserController.java" ->
         << anEndpoint("GET", "/api/users", filePath, 3, "UserController", "getUsers") >>
    [] filePath = "/proj/src/main/java/Health.java" ->
         << anEndpoint("GET", "/health", filePath, 1, undefined, undefined) >>
    [] filePath = "/proj/app/UserRoutes.scala" ->
         << anEndpoint("GET", "/users", filePath, 2, "UserRoutes", undefined),
            anEndpoint("GET", "/ping", filePath, 3, "UserRoutes", undefined),
            anEndpoint("POST", "/users", filePath, 4, "UserRoutes", undefined),
            anEndpoint("GET", "/api/users", filePath, 5, undefined, "controllers.Users.list") >>
    [] filePath = "/proj/app/Ping.scala" ->
         << anEndpoint("POST", "/ping", filePath, 1, undefined, undefined) >>
    [] OTHER -> <<>>

\* The endpoints of the files 1..n of the list, one file after the other.
RECURSIVE AloneEndpointsUpTo(_, _)
AloneEndpointsUpTo(files, n) ==
  IF n <= 0 THEN <<>>
  ELSE AloneEndpointsUpTo(files, n - 1)
         \o (IF entryOf(files[n]).readable THEN AloneEndpoints(files[n]) ELSE <<>>)

\* C20: the class name and the base path are local to one extract call:
\* whatever files were processed before, with the same extractor, a file
\* adds exactly the endpoints it gives when it is processed alone, in any
\* order of the files.
C20_FilesDoNotInterfere ==
  scan.pc \in {"loop", "done"} =>
    scan.result.endpoints = AloneEndpointsUpTo(scan.files, scan.k - 1)

C20_Witness ==
  /\ scan.pc = "done"
  /\ scan.files = << "/proj/src/main/java/UserController.java",
                     "/proj/src/main/java/Health.java" >>
  /\ Len(scan.result.endpoints) = 2
  /\ scan.result.endpoints[2].className = undefined
  /\ scan.result.endpoints[2].path = "/health"

(***************************************************************************)
(* Properties of the specification parser                                  *)
(***************************************************************************)

FinderDone == finder.pc = "done"

\* The document is an object with an openapi or swagger value, an object
\* as paths, an object as info, and a version that passes: 3.x.x for the
\* openapi value when there is one, else "2.0" for the swagger value.
Acceptable(parsed) ==
  /\ parsed.ok
  /\ parsed.data.type = "object"
  /\ LET openapi == get(parsed.data, "openapi")
         swagger == get(parsed.data, "swagger")
     IN  /\ truthy(openapi) \/ truthy(swagger)
         /\ get(parsed.data, "paths").type = "object"
         /\ get(parsed.data, "info").type = "object"
         /\ IF truthy(openapi)
            THEN /\ Len(openapi.text) >= 5
                 /\ SubSeq(openapi.text, 1, 2) = "3."
                 /\ \E d \in 4..Len(openapi.text) - 1 :
                      /\ SubSeq(openapi.text, d, d) = "."
                      /\ \A c \in 3..(d - 1) : SubSeq(openapi.text, c, c) \in Digits
                      /\ d > 3
                      /\ SubSeq(openapi.text, d + 1, d + 1) \in Digits
            ELSE swagger.type = "string" /\ swagger.text = "2.0"

C13_SwaggerMustBeTwoZero ==
  ( /\ FinderDone
    /\ finder.parsed.ok
    /\ finder.parsed.data.type = "object"
    /\ get(finder.parsed.data, "swagger") \notin {JUndefined, JString("2.0")} )
  => finder.result = None

\* The operations the statement counts: for each path item that is an
\* object, each of the seven verb keys whose value is an object.
RECURSIVE ObjectOperationsFrom(_, _, _)
ObjectOperationsFrom(path, pathItem, n) ==
  IF n > Len(methods) THEN <<>>
  ELSE (IF get(pathItem, methods[n]).type = "object"
        THEN << [method |-> toUpperCase(methods[n]), path |-> path,
                 operationId |-> get(get(pathItem, methods[n]), "operationId"),
                 summary |-> get(get(pathItem, methods[n]), "summary")] >>
        ELSE <<>>)
         \o ObjectOperationsFrom(path, pathItem, n + 1)

RECURSIVE ObjectOperations(_, _)
ObjectOperations(paths, n) ==
  IF n > Len(paths.members) THEN <<>>
  ELSE (IF paths.members[n].value.type = "object"
        THEN ObjectOperationsFrom(paths.members[n].key, paths.members[n].value, 1)
        ELSE <<>>)
         \o ObjectOperations(paths, n + 1)

\* C14: for an accepted document the parser emits one spec endpoint for
\* each path key and each of the seven lowercase verb keys present under it
\* as an object-typed property, and nothing else, with the verb uppercased,
\* the path key unchanged, operationId and summary copied; a verb key whose
\* value is a string, a number or a boolean emits nothing.
C14_OneEndpointPerObjectOperation ==
  (FinderDone /\ finder.result # None) =>
    finder.result[1].endpoints = ObjectOperations(get(finder.parsed.data, "paths"), 1)

(***************************************************************************)
(* Properties of the path utilities                                        *)
(***************************************************************************)

\* C15: path normalization is idempotent: normalize(normalize(p)) equals
\* normalize(p) for every string p.
C15_NormalizeIsIdempotent ==
  fn.pc = "done" => normalizePath(fn.result) = fn.result

C15_Witness ==
  fn.pc = "done" /\ fn.path = "a//b/" /\ fn.result = "a/b"

\* C16: the normalized path is never empty, has no two '/' in a row, and
\* does not end in '/' unless it is '/'; the empty string and '/' give '/',
\* and '//api///users/' gives '/api/users'.
C16_NormalizedShape ==
  fn.pc = "done" =>
    /\ fn.result # ""
    /\ ~includes(fn.result, "//")
    /\ endsWith(fn.result, "/") => fn.result = "/"
    /\ fn.path \in {"", "/"} => fn.result = "/"
    /\ fn.path = "//api///users/" => fn.result = "/api/users"

C16_Witness ==
  fn.pc = "done" /\ fn.path = "//api///users/" /\ fn.result = "/api/users"

\* The path with a '/' in front when it has none.
WithLeadingSlash(path) == IF startsWith(path, "/") THEN path ELSE "/" \o path

\* The path without the '/' at its end, and without the '/' at its start.
WithoutTrailingSlashes(path) ==
  SubSeq(path, 1, Greatest({0} \cup {k \in 1..Len(path) : SubSeq(path, k, k) # "/"}))

WithoutLeadingSlashes(path) ==
  SubSeq(path, Least({Len(path) + 1} \cup {k \in 1..Len(path) : SubSeq(path, k, k) # "/"}),
         Len(path))

\* Base and sub path with exactly one '/' between them.
JoinedWithOneSlash(basePath, subPath) ==
  WithoutTrailingSlashes(WithLeadingSlash(basePath)) \o "/" \o WithoutLeadingSlashes(subPath)

CombinedAsStated(basePath, subPath) ==
  IF basePath = "" /\ subPath = "" THEN "/"
  ELSE IF basePath = "" THEN WithLeadingSlash(subPath)
  ELSE IF subPath = "" THEN WithLeadingSlash(basePath)
  ELSE JoinedWithOneSlash(basePath, subPath)

\* More than one '/' at the end of the base path or at the start of the sub
\* path.
SlashesRepeatAtJoint(basePath, subPath) ==
  endsWith(WithLeadingSlash(basePath), "//") \/ startsWith(subPath, "//")

\* C17: combine gives '/' for two empty paths, the non-empty one with a
\* leading '/' when one is empty, and else base and sub path joined with
\* exactly one '/' between them when the base ends in at most one '/' and
\* the sub path starts with at most one '/'; only one '/' is taken from the
\* end of the base and none from the start of the sub path, so with more of
\* them the joint keeps more than one '/'.
C17_CombineJoinsWithOneSlash ==
  fn.pc = "done" =>
    IF fn.basePath # "" /\ fn.endpointPath # ""
         /\ SlashesRepeatAtJoint(fn.basePath, fn.endpointPath)
    THEN fn.result # CombinedAsStated(fn.basePath, fn.endpointPath)
    ELSE fn.result = CombinedAsStated(fn.basePath, fn.endpointPath)

C17_Witness ==
  fn.pc = "done" /\ fn.basePath = "/api/" /\ fn.endpointPath = "/posts"
    /\ fn.result = "/api/posts"

\* C17 as stated: exactly one '/' between base and sub path for every
\* non-empty base and sub path, also with several '/' at the joint.
C17_OneSlashForEveryPair ==
  fn.pc = "done" => fn.result = CombinedAsStated(fn.basePath, fn.endpointPath)

(***************************************************************************)
(* Properties of the two extractors                                        *)
(***************************************************************************)

\* The endpoints an extractor has emitted so far.
EmittedBy(extractor) == IF extractor.pc = "idle" THEN <<>> ELSE extractor.endpoints

\* C18: every endpoint emitted by the Java extractor or by a branch of the
\* Scala extractor has a non-empty path that begins with '/'.
C18_PathsBeginWithSlash ==
  \A extractor \in {java, scala} :
    \A n \in 1..Len(EmittedBy(extractor)) :
      /\ EmittedBy(extractor)[n].path # ""
      /\ startsWith(EmittedBy(extractor)[n].path, "/")

C18_Witness ==
  /\ scala.pc = "done"
  /\ scala.lines = << "  @PostMapping(value = \"users\")", "  def createUser(user: User) = ???" >>
  /\ Len(scala.endpoints) = 1
  /\ scala.endpoints[1].path = "/users"

\* The line declares a verb that is no extraction target.
DeclaresOtherVerb(line) ==
  includes(line, "RequestMethod.HEAD") \/ includes(line, "RequestMethod.OPTIONS")

\* C19: only GET, POST, PUT, PATCH and DELETE are extraction targets: an
\* annotation that declares another verb, as method = RequestMethod.HEAD,
\* gives no endpoint in the Java and in the Scala extractor.
C19_OtherVerbsGiveNoEndpoint ==
  \A extractor \in {java, scala} :
    \A n \in 1..Len(EmittedBy(extractor)) :
      ~DeclaresOtherVerb(extractor.lines[EmittedBy(extractor)[n].lineNumber])

(***************************************************************************)
(* Further properties of the coverage analyzer                             *)
(***************************************************************************)

\* The fields of an Endpoint.
EndpointFields == {"method", "path", "filePath", "lineNumber", "className", "methodName"}

\* C21: analyzeEndpointCoverage returns a list of the length and in the
\* order of the input endpoints, the i-th result has the method, path,
\* filePath, lineNumber, className and methodName of the i-th input and only
\* adds the coverage field, and the call leaves the input endpoints and the
\* specifications as they were.
C21_AnalyzeKeepsItsInputs ==
  /\ [](cov.pc = "done" =>
          /\ Len(cov.result) = Len(cov.endpoints)
          /\ \A n \in 1..Len(cov.endpoints) :
               /\ DOMAIN cov.result[n] = EndpointFields \cup {"apiSpecCoverage"}
               /\ \A f \in EndpointFields : cov.result[n][f] = cov.endpoints[n][f])
  /\ [][cov'.endpoints = cov.endpoints /\ cov'.apiSpecs = cov.apiSpecs]_vars

C21_Witness ==
  /\ cov.pc = "done" /\ Len(cov.apiSpecs) > 0
  /\ Len(cov.endpoints) = 2 /\ cov.endpoints[1] # cov.endpoints[2]
  /\ cov.result[1].lineNumber = cov.endpoints[1].lineNumber
  /\ cov.result[2].lineNumber = cov.endpoints[2].lineNumber
  /\ cov.result[1].apiSpecCoverage.status # cov.result[2].apiSpecCoverage.status

(***************************************************************************)
(* Further properties of the Scala extractor                               *)
(***************************************************************************)

\* The trimmed line that the n-th endpoint of the Scala extractor came from.
ScalaLineOf(n) == trim(scala.lines[scala.endpoints[n].lineNumber])

\* The endpoint that the Spring branch gives for the line of the n-th
\* endpoint.
SpringEndpointOf(n) ==
  [method |-> extractHttpMethod(ScalaLineOf(n)),
   path |-> combinePaths(scala.baseMapping, scalaExtractPath(ScalaLineOf(n)))]

\* C22: the Scala extractor applies the detections to a line in the order
\* Spring annotation, Play route, Akka HTTP, http4s, and the first that
\* matches handles the line: the endpoint of a line that is both a Spring
\* annotation and a Play route is the Spring one, and the endpoint of a
\* line that is both an Akka route and an http4s route is the Akka one.
C22_SpringThenPlayThenAkkaThenHttp4s ==
  \A n \in 1..Len(EmittedBy(scala)) :
    /\ (isSpringAnnotation(ScalaLineOf(n)) /\ isPlayFrameworkRoute(ScalaLineOf(n))) =>
         /\ scala.endpoints[n].method = SpringEndpointOf(n).method
         /\ scala.endpoints[n].path = SpringEndpointOf(n).path
    /\ (/\ ~isSpringAnnotation(ScalaLineOf(n)) /\ ~isPlayFrameworkRoute(ScalaLineOf(n))
        /\ isAkkaHttpRoute(ScalaLineOf(n)) /\ isHttp4sRoute(ScalaLineOf(n))) =>
         <<scala.endpoints[n]>> =
           extractAkkaRoute(ScalaLineOf(n), scala.filePath, scala.endpoints[n].lineNumber,
                            scala.endpoints[n].className)

\* The n-th endpoint of the Scala extractor came from the http4s branch.
FromHttp4s(n) ==
  /\ ~isPlayFrameworkRoute(ScalaLineOf(n)) /\ ~isSpringAnnotation(ScalaLineOf(n))
  /\ ~isAkkaHttpRoute(ScalaLineOf(n)) /\ isHttp4sRoute(ScalaLineOf(n))

\* The segments of a path that is not '/'.
SegmentsOf(path) == IF path = "/" THEN <<>> ELSE Tail(split(path, "/"))

\* C25: the http4s path takes the quoted literals after Root first, from
\* left to right, and then the extractors UpperCaseIdentifier(arg), from
\* left to right, as :<arg>, or :id when the argument is empty: every
\* literal segment comes before every parameter segment, also when the line
\* has them interleaved, as in `case GET -> Root / "users" / UserId(id) /
\* "posts"`, which gives /users/posts/:id.
C25_Http4sLiteralsBeforeParameters ==
  /\ \A n \in 1..Len(EmittedBy(scala)) :
       FromHttp4s(n) =>
         LET segments == SegmentsOf(scala.endpoints[n].path)
         IN  \A a, b \in 1..Len(segments) :
               (a < b /\ startsWith(segments[a], ":")) => startsWith(segments[b], ":")
  /\ ScalaScanned(<<"case GET -> Root / \"users\" / UserId(id) / \"posts\"">>) =>
       /\ Len(scala.endpoints) = 1
       /\ scala.endpoints[1].path = "/users/posts/:id"
  /\ ScalaScanned(<<"case GET -> Root / OrgId(org) / \"users\" / UserId() / \"posts\" =>">>) =>
       /\ Len(scala.endpoints) = 1
       /\ scala.endpoints[1].path = "/users/posts/:org/:id"

C25_Witness ==
  /\ ScalaScanned(<<"case GET -> Root / \"users\" / UserId(id) / \"posts\"">>)
  /\ FromHttp4s(1)
  /\ SegmentsOf(scala.endpoints[1].path) = <<"users", "posts", ":id">>

\* The n-th endpoint of the Scala extractor came from the Akka branch.
FromAkka(n) ==
  /\ ~isPlayFrameworkRoute(ScalaLineOf(n)) /\ ~isSpringAnnotation(ScalaLineOf(n))
  /\ isAkkaHttpRoute(ScalaLineOf(n))

\* What the run on an Akka line after a prefix returns when the endpoint
\* carries the given class name.
AkkaResult(prefix, c, className) ==
  IF c.path = "" THEN <<>>
  ELSE <<scalaEndpoint(c.verb, c.path, Len(prefix.lines) + 1, className, undefined)>>

\* C26: the Akka branch emits nothing when the resolved path is empty or
\* '/'; an endpoint it emits has a path that starts with '/', no methodName,
\* and as className what the last line recognized as a type declaration
\* gave: the name after class, object or trait, and none when that line is
\* an @Controller or @RestController annotation without such a name. The
\* quoted string with a '/' is the path only when path(...) or
\* pathPrefix(...) gives none.
C26_AkkaEndpoint ==
  /\ \A n \in 1..Len(EmittedBy(scala)) :
       FromAkka(n) =>
         /\ startsWith(scala.endpoints[n].path, "/") /\ scala.endpoints[n].path # "/"
         /\ scala.endpoints[n].methodName = undefined
  /\ \A prefix \in AkkaPrefixes, c \in AkkaCases :
       ScalaScanned(prefix.lines \o <<c.line>>) =>
         scala.endpoints = AkkaResult(prefix, c, prefix.className)

C26_Witness ==
  /\ ScalaScanned(<<"trait Base {", "}", "object UserRoutes {",
                    "  path(\"\") { get { redirect(\"docs/index\") } }">>)
  /\ Len(scala.endpoints) = 1 /\ FromAkka(1)
  /\ scala.endpoints[1].path = "/docs/index"
  /\ scala.endpoints[1].className = "UserRoutes"

\* C26 as stated: the className is the name of the enclosing type last seen
\* in the file, whatever lines follow its declaration.
C26_ClassNameOfEnclosingType ==
  \A prefix \in AkkaPrefixes, c \in AkkaCases :
    ScalaScanned(prefix.lines \o <<c.line>>) =>
      scala.endpoints = AkkaResult(prefix, c, prefix.enclosing)

\* C27: the verb of an Akka endpoint is the verb token of the directive on
\* the line, not letters of a verb inside another word or inside the quoted
\* path: `path("widgets") { post {` gives POST /widgets.
C27_AkkaVerbIsTheDirective ==
  ScalaScanned(AkkaWidgets) =>
    /\ Len(scala.endpoints) = 1
    /\ scala.endpoints[1].path = "/widgets"
    /\ scala.endpoints[1].method = "POST"

\* C28: a line gives a Play endpoint only if it is a verb, a path token that
\* starts with '/', and a controller reference that itself holds a '.': the
\* line `GET /api/v1.0/users handler`, whose only '.' is in the path, gives
\* no endpoint.
C28_PlayControllerHoldsTheDot ==
  ScalaScanned(PlayDottedPath) => scala.endpoints = <<>>

(***************************************************************************)
(* Further properties of the Java extractor                                *)
(***************************************************************************)

\* C23: the carried state resets at a type declaration: the base path holds
\* for the methods of one controller, and after a later type declaration in
\* the file it no longer applies, so the endpoint of the second controller,
\* which declares no @RequestMapping, is /health and not /api/users/health.
C23_BaseMappingResetsAtTypeDeclaration ==
  JavaDone(TwoControllers) =>
    /\ Len(java.endpoints) = 2
    /\ java.endpoints[1].className = "UserController"
    /\ java.endpoints[1].path = "/api/users/all"
    /\ java.endpoints[2].className = "HealthController"
    /\ java.endpoints[2].path = "/health"

(***************************************************************************)
(* Further properties of the two extractors                                *)
(***************************************************************************)

\* The line numbers of the endpoints emitted so far.
LineNumbersOf(extractor) ==
  [n \in 1..Len(EmittedBy(extractor)) |-> EmittedBy(extractor)[n].lineNumber]

\* The line is one that a branch of the extractor takes for an endpoint.
TriggersJava(line) == javaIsEndpointAnnotation(line)

TriggersScala(line) ==
  \/ isPlayFrameworkRoute(line) \/ isSpringAnnotation(line)
  \/ isAkkaHttpRoute(line) \/ isHttp4sRoute(line)

\* C24: in both extractors a line gives at most one endpoint and the
\* lineNumber of an endpoint is the 1-based index of the line it came from:
\* the line numbers of the endpoints of a file increase strictly, lie between
\* 1 and the number of lines, and there are no more endpoints than lines.
C24_LineNumbersIncrease ==
  \A extractor \in {java, scala} :
    LET numbers == LineNumbersOf(extractor)
    IN  /\ \A n \in 1..Len(numbers) :
             /\ numbers[n] \in 1..extractor.i
             /\ extractor.i <= Len(extractor.lines)
             /\ n > 1 => numbers[n - 1] < numbers[n]
        /\ Len(numbers) > 0 => Len(numbers) <= Len(extractor.lines)
        /\ \A n \in 1..Len(numbers) :
             IF extractor = java /\ java.pc # "idle"
             THEN TriggersJava(trim(java.lines[numbers[n]]))
             ELSE TriggersScala(trim(scala.lines[numbers[n]]))

C24_Witness ==
  /\ scala.pc = "done" /\ scala.lines = Http4sRoutes
  /\ Len(scala.endpoints) >= 2
  /\ scala.endpoints[1].lineNumber < scala.endpoints[2].lineNumber
  /\ scala.endpoints[2].lineNumber <= Len(scala.lines)

(***************************************************************************)
(* Further properties of the file scanner                                  *)
(***************************************************************************)

\* The files of the scan that cannot be read.
Unreadable == { n \in 1..Len(scan.files) : ~entryOf(scan.files[n]).readable }

\* The message is that of the failure of one file.
NamesFile(message, filePath) == startsWith(message, "Failed to process " \o filePath \o ": ")

AtFailingFile == scan.pc = "loop" /\ scan.k <= Len(scan.files) /\ scan.k \in Unreadable

\* C30: the failure of one file is isolated: it appends one error that
\* names the file, adds no endpoint, does not count the file as scanned,
\* leaves the endpoints and counters of the earlier files as they are, and
\* the files after it are still handled.
C30_FailureIsIsolated ==
  /\ [][AtFailingFile =>
          /\ scan'.result.errors =
               scan.result.errors \o <<scan'.result.errors[Len(scan.result.errors) + 1]>>
          /\ NamesFile(scan'.result.errors[Len(scan.result.errors) + 1], scan.files[scan.k])
          /\ scan'.result.endpoints = scan.result.endpoints
          /\ scan'.result.scannedFiles = scan.result.scannedFiles
          /\ scan'.result.totalFiles = scan.result.totalFiles
          /\ scan'.pc = "loop" /\ scan'.k = scan.k + 1]_vars
  /\ []((scan.pc = "done" /\ scan.listable) =>
          /\ scan.result.scannedFiles = Len(scan.files) - Cardinality(Unreadable)
          /\ scan.result.endpoints = AloneEndpointsUpTo(scan.files, Len(scan.files)))

C30_Witness ==
  /\ scan.pc = "done"
  /\ scan.files = <<"/proj/src/main/java/Locked.java", "/proj/src/main/java/Health.java">>
  /\ Len(scan.result.errors) = 1
  /\ scan.result.scannedFiles = 1
  /\ Len(scan.result.endpoints) = 1
  /\ scan.result.endpoints[1].filePath = "/proj/src/main/java/Health.java"

====
